---------------------------- MODULE Spec2Model ----------------------------
(***************************************************************************)
(* Webhook configuration store, file watcher, event filter and dispatch of *)
(* wweb-mcp (src/src/whatsapp-client.ts) together with the MCP tools that   *)
(* drive them (update_webhook_config, disable_webhook,                      *)
(* reload_webhook_config in src/unnamed/part_001).                          *)
(*                                                                         *)
(* JavaScript values are modelled as tagged records, so that `undefined`,   *)
(* booleans, strings, arrays and objects stay distinguishable:              *)
(*   Undefined, Bool(b), Str(s), Arr(seq), and objects with type "object".  *)
(* The text of a JSON file is a different shape from the object it was      *)
(* produced from: it holds only the members JSON.stringify emits.           *)
(***************************************************************************)
EXTENDS Integers, Sequences, FiniteSets, TLC

(***************************************************************************)
(* Bounds of the model.                                                    *)
(***************************************************************************)
\* how many distinct phone numbers exist
NumNumbers == 2
\* longest allowedNumbers list that is enumerated
MaxAllowed == 2
\* how many file-change notifications may be queued at once
MaxPending == 1
\* how many file observations may be open at once before start-up is refused
MaxWatchers == 2
\* how many inbound messages arrive
MaxEvents == 1
\* the messages that arrive after the first one has been handled
MaxLater == 1

(***************************************************************************)
(* JavaScript values.                                                      *)
(***************************************************************************)
Undefined == [type |-> "undefined"]

Bool(b) == [type |-> "boolean", value |-> b]

Str(s) == [type |-> "string", value |-> s]

Arr(items) == [type |-> "array", items |-> items]

Num(n) == [type |-> "number", value |-> n]

\* `v ? a : b`, `if (v)`, `v || d` : JavaScript truthiness of a value
Truthy(v) ==
  CASE v.type = "undefined" -> FALSE
    [] v.type = "boolean" -> v.value
    [] v.type = "string" -> v.value # ""
    [] v.type = "number" -> v.value # 0
    [] OTHER -> TRUE

\* contact.number of the possible senders
NumberNames == <<"15551234567", "15557654321", "15550000003", "15550000004">>

Numbers == {Str(NumberNames[i]) : i \in 1..NumNumbers}

SeqsUpTo(S, n) == UNION {[1..k -> S] : k \in 0..n}

NumberLists == SeqsUpTo(Numbers, MaxAllowed)

Urls == {Str("https://a.test/hook"), Str("https://b.test/hook")}

Tokens == {Str("secret")}

OptBool == {Undefined, Bool(TRUE), Bool(FALSE)}

\* interface WebhookConfig { filters?: {...} }
FilterKeys == {"allowedNumbers", "allowPrivate", "allowGroups"}

MkFilters(nums, priv, grp) ==
  [type |-> "object", allowedNumbers |-> nums, allowPrivate |-> priv, allowGroups |-> grp]

AllFilters ==
  {Undefined} \cup
  {MkFilters(n, p, g) : n \in {Undefined} \cup {Arr(l) : l \in NumberLists},
                        p \in OptBool, g \in OptBool}

\* interface WebhookConfig
ConfigKeys == {"url", "authToken", "filters"}

MkConfig(url, tok, flt) ==
  [type |-> "object", url |-> url, authToken |-> tok, filters |-> flt]


(***************************************************************************)
(* JSON text and files.                                                    *)
(***************************************************************************)
\* fs.existsSync(p) is false
Absent == [type |-> "absent"]

\* a file whose text JSON.parse rejects
Malformed == [type |-> "text", wellFormed |-> FALSE]

\* a file holding the JSON text of one object; doc maps each member that is
\* written out to its value
Text(doc) == [type |-> "text", wellFormed |-> TRUE, doc |-> doc]

\* the members JSON.stringify emits for an object: those that are not undefined
Present(obj, keys) == {k \in keys : obj[k] # Undefined}

StringifyFilters(f) == [k \in Present(f, FilterKeys) |-> f[k]]

\* mutation: only the top-level scalar members are written
StringifyConfigShallow(c) ==
  [k \in Present(c, ConfigKeys) \ {"filters"} |-> c[k]]

StringifyConfig(c) ==
  [k \in Present(c, ConfigKeys) |->
     IF k = "filters" THEN StringifyFilters(c.filters) ELSE c[k]]

\* JSON.stringify(newConfig, null, 2): undefined for undefined, else the text
JSONstringify(v) == IF v = Undefined THEN Undefined ELSE Text(StringifyConfig(v))

ParseFilters(m) ==
  [type |-> "object",
   allowedNumbers |-> IF "allowedNumbers" \in DOMAIN m THEN m.allowedNumbers ELSE Undefined,
   allowPrivate |-> IF "allowPrivate" \in DOMAIN m THEN m.allowPrivate ELSE Undefined,
   allowGroups |-> IF "allowGroups" \in DOMAIN m THEN m.allowGroups ELSE Undefined]

ParseConfig(m) ==
  [type |-> "object",
   url |-> IF "url" \in DOMAIN m THEN m.url ELSE Undefined,
   authToken |-> IF "authToken" \in DOMAIN m THEN m.authToken ELSE Undefined,
   filters |-> IF "filters" \in DOMAIN m THEN ParseFilters(m.filters) ELSE Undefined]

\* JSON.parse(text) throws a SyntaxError
ParseThrows(content) == ~content.wellFormed

\* JSON.parse(text) when it does not throw
JSONparse(content) == ParseConfig(content.doc)

\* path.join(dataPath, 'webhook.json')
PathJoin(dataPath) ==
  CASE dataPath = ".wwebjs_auth" -> ".wwebjs_auth/webhook.json"
    [] dataPath = "data" -> "data/webhook.json"

DataDirs == {".wwebjs_auth", "data"}

Paths == {PathJoin(d) : d \in DataDirs}

(***************************************************************************)
(* State.                                                                  *)
(***************************************************************************)
VARIABLES
  currentWebhookConfig,  \* let currentWebhookConfig: WebhookConfig | undefined
  configWatcher,         \* let configWatcher: any
  webhookConfigPath,     \* let webhookConfigPath: string
  files,                 \* the file system: path -> content
  watches,               \* the open fs.watch observations: {[id, path]}
  pending,               \* change notifications queued for the watch listeners
  installed,             \* the value the latest completed write put in the store (history)
  probe,                 \* one evaluation of a pure function: its inputs and its result
  events,                \* the runs of the 'message' handler, in order of arrival
  posts,                 \* the HTTP POST requests issued so far, in order (history)
  last                   \* what the last step of the store did and returned (history)

storeVars ==
  <<currentWebhookConfig, configWatcher, webhookConfigPath, files, watches, pending>>

\* The module-level variables and the file system as one value g, so that the
\* statements of a function can be applied one after the other.
Globals ==
  [currentWebhookConfig |-> currentWebhookConfig,
   configWatcher |-> configWatcher,
   webhookConfigPath |-> webhookConfigPath,
   files |-> files,
   watches |-> watches,
   pending |-> pending]

Commit(g) ==
  /\ currentWebhookConfig' = g.currentWebhookConfig
  /\ configWatcher' = g.configWatcher
  /\ webhookConfigPath' = g.webhookConfigPath
  /\ files' = g.files
  /\ watches' = g.watches
  /\ pending' = g.pending

\* fs.existsSync(p)
ExistsSync(g, p) == g.files[p] # Absent

\* the listeners of the observations open on file p are told `eventType`
Notify(g, p, eventType) ==
  LET hit == {w \in g.watches : w.path = p}
      Enq[S \in SUBSET hit] ==
        IF S = {} THEN g.pending
        ELSE LET w == CHOOSE x \in S : \A y \in S : x.id <= y.id
             IN  Append(Enq[S \ {w}], [id |-> w.id, eventType |-> eventType])
  IN  [g EXCEPT !.pending = Enq[hit]]

\* fs.writeFileSync(p, data): throws a TypeError when data is not a string
\* (JSON.stringify(undefined) is undefined), throws when the file system
\* refuses the write (ioOk = FALSE), else replaces the whole content of p.
WriteThrows(data, ioOk) == data = Undefined \/ ~ioOk

WriteFileSync(g, p, data, ioOk) ==
  IF WriteThrows(data, ioOk) THEN g
  ELSE Notify([g EXCEPT !.files[p] = data], p, "change")

\* configWatcher.close(): the observation ends and its listener is never
\* called again
CloseWatcher(g, w) ==
  [g EXCEPT !.watches = {x \in g.watches : x.id # w.id},
            !.pending = SelectSeq(g.pending, LAMBDA n : n.id # w.id)]

\* an id for a new observation
FreshId(g) == CHOOSE i \in 1..(Cardinality(g.watches) + 1) :
                \A w \in g.watches : w.id # i

\* watch(webhookConfigPath, listener)
Watch(g, p) ==
  LET i == FreshId(g)
  IN  [g EXCEPT !.watches = g.watches \cup {[id |-> i, path |-> p]},
                !.configWatcher = [type |-> "watcher", id |-> i]]

\* mutation: the existing watcher is not closed before a new one is started
SetupWebhookConfigWatcherNoClose(g) ==
  IF ExistsSync(g, g.webhookConfigPath.value)
  THEN Watch(g, g.webhookConfigPath.value)
  ELSE g

\* function setupWebhookConfigWatcher()
SetupWebhookConfigWatcher(g) ==
  LET g1 == IF g.configWatcher # Undefined THEN CloseWatcher(g, g.configWatcher) ELSE g
  IN  IF ExistsSync(g1, g1.webhookConfigPath.value)
      THEN Watch(g1, g1.webhookConfigPath.value)
      ELSE g1

\* the value loadWebhookConfig takes from a file with this content
LoadedValue(content) ==
  IF content # Absent
  THEN IF ParseThrows(content) THEN Undefined ELSE JSONparse(content)
  ELSE Undefined

\* mutation: the two assignments of undefined are missing, a file that is
\* missing or malformed leaves the configuration that was in memory
LoadWebhookConfigKeeps(g, dataPath) ==
  LET p == PathJoin(dataPath)
      g1 == [g EXCEPT !.webhookConfigPath = Str(p)]
      g2 == IF ExistsSync(g1, p) /\ ~ParseThrows(g1.files[p])
            THEN [g1 EXCEPT !.currentWebhookConfig = JSONparse(g1.files[p])]
            ELSE g1
  IN  SetupWebhookConfigWatcher(g2)

\* function loadWebhookConfig(dataPath)
LoadWebhookConfig(g, dataPath) ==
  LET p == PathJoin(dataPath)
      g1 == [g EXCEPT !.webhookConfigPath = Str(p)]
      g2 == [g1 EXCEPT !.currentWebhookConfig = LoadedValue(g1.files[p])]
  IN  SetupWebhookConfigWatcher(g2)

\* try { ... JSON.parse(...) } catch (error) { ...; currentWebhookConfig =
\* undefined }: whether the parse error leaves loadWebhookConfig
LoadWebhookConfigThrows(g, dataPath) ==
  /\ ExistsSync(g, PathJoin(dataPath))
  /\ ParseThrows(g.files[PathJoin(dataPath)])
  /\ FALSE  \* the catch clause takes every exception and does not rethrow

\* whether updateWebhookConfig reaches fs.writeFileSync
Saves(g, saveToFile) == saveToFile /\ Truthy(g.webhookConfigPath)

\* mutation: the assignment comes after the write, inside the try block, so a
\* failed write leaves the old configuration in memory
UpdateWebhookConfigAfterWrite(g, newConfig, saveToFile, ioOk) ==
  IF Saves(g, saveToFile)
  THEN IF WriteThrows(JSONstringify(newConfig), ioOk) THEN g
       ELSE [WriteFileSync(g, g.webhookConfigPath.value, JSONstringify(newConfig), ioOk)
               EXCEPT !.currentWebhookConfig = newConfig]
  ELSE [g EXCEPT !.currentWebhookConfig = newConfig]

\* mutation: setupWebhookConfigWatcher() is called after the write, so a file
\* created by the update is observed from then on
UpdateWebhookConfigWatches(g, newConfig, saveToFile, ioOk) ==
  LET g1 == [g EXCEPT !.currentWebhookConfig = newConfig]
  IN  IF Saves(g1, saveToFile)
      THEN SetupWebhookConfigWatcher(
             WriteFileSync(g1, g1.webhookConfigPath.value, JSONstringify(newConfig), ioOk))
      ELSE g1

\* mutation: `webhookConfigPath || '.wwebjs_auth/webhook.json'`, an update
\* made before the path is known is written to the default file
UpdateWebhookConfigDefaultPath(g, newConfig, saveToFile, ioOk) ==
  LET g1 == [g EXCEPT !.currentWebhookConfig = newConfig]
      p == IF Truthy(g1.webhookConfigPath) THEN g1.webhookConfigPath.value
           ELSE ".wwebjs_auth/webhook.json"
  IN  IF saveToFile
      THEN WriteFileSync(g1, p, JSONstringify(newConfig), ioOk)
      ELSE g1

\* export function updateWebhookConfig(newConfig, saveToFile = true)
UpdateWebhookConfig(g, newConfig, saveToFile, ioOk) ==
  LET g1 == [g EXCEPT !.currentWebhookConfig = newConfig]
  IN  IF Saves(g1, saveToFile)
      THEN WriteFileSync(g1, g1.webhookConfigPath.value, JSONstringify(newConfig), ioOk)
      ELSE g1

\* try { fs.writeFileSync(...) } catch (error) { logger.error(...) }: whether
\* an exception of the write leaves updateWebhookConfig
UpdateWebhookConfigThrows(g, newConfig, saveToFile, ioOk) ==
  /\ Saves(g, saveToFile)
  /\ WriteThrows(JSONstringify(newConfig), ioOk)
  /\ FALSE  \* the catch clause takes every exception and does not rethrow

\* how the write of updateWebhookConfig ended
WriteOutcome(g, newConfig, saveToFile, ioOk) ==
  IF ~Saves(g, saveToFile) THEN "skipped"
  ELSE IF JSONstringify(newConfig) = Undefined THEN "TypeError"
  ELSE IF ~ioOk THEN "EIO"
  ELSE "written"

\* export function getCurrentWebhookConfig()
GetCurrentWebhookConfig(g) == g.currentWebhookConfig

(***************************************************************************)
(* The MCP tools (src/unnamed/part_001).                                    *)
(***************************************************************************)
\* `saveToFile = true` in the parameter list: the default of an omitted flag
DefaultTrue(flag) == IF flag = Undefined THEN TRUE ELSE flag.value

\* obj?.key
OptChain(obj, key) == IF obj = Undefined THEN Undefined ELSE obj[key]

\* mutation: the flags are defaulted with `|| true`, which turns a false
\* that was given into true
NewConfigOrTrue(url, authToken, filters) ==
  MkConfig(url, authToken,
    MkFilters(
      IF Truthy(OptChain(filters, "allowedNumbers"))
        THEN filters.allowedNumbers ELSE Arr(<<>>),
      IF Truthy(OptChain(filters, "allowPrivate"))
        THEN filters.allowPrivate ELSE Bool(TRUE),
      IF Truthy(OptChain(filters, "allowGroups"))
        THEN filters.allowGroups ELSE Bool(TRUE)))

\* the newConfig that update_webhook_config builds from its arguments
NewConfig(url, authToken, filters) ==
  MkConfig(url, authToken,
    MkFilters(
      IF Truthy(OptChain(filters, "allowedNumbers"))
        THEN filters.allowedNumbers ELSE Arr(<<>>),
      IF OptChain(filters, "allowPrivate") # Undefined
        THEN filters.allowPrivate ELSE Bool(TRUE),
      IF OptChain(filters, "allowGroups") # Undefined
        THEN filters.allowGroups ELSE Bool(TRUE)))

\* whether update_webhook_config also writes to the custom path
SavesCustom(saveToFile, configPath) == saveToFile /\ Truthy(configPath)

\* the isError flag of the result of update_webhook_config
UpdateIsError(newConfig, saveToFile, configPath, ioOk, ioOk2) ==
  SavesCustom(saveToFile, configPath) /\ WriteThrows(JSONstringify(newConfig), ioOk2)

\* the globals after update_webhook_config
UpdateTool(g, newConfig, saveToFile, configPath, ioOk, ioOk2) ==
  LET g1 == UpdateWebhookConfig(g, newConfig, saveToFile, ioOk)
  IN  IF SavesCustom(saveToFile, configPath)
      THEN WriteFileSync(g1, configPath.value, JSONstringify(newConfig), ioOk2)
      ELSE g1

\* const filePath = configPath || '.wwebjs_auth/webhook.json'
ReloadFilePath(configPath) ==
  IF Truthy(configPath) THEN configPath.value ELSE ".wwebjs_auth/webhook.json"

\* mutation: the fs.existsSync check is missing, so a missing file makes
\* readFileSync throw and ends in the catch clause
ReloadOutcomeNoExistsCheck(g, configPath) ==
  LET filePath == ReloadFilePath(configPath)
  IN  IF ~ExistsSync(g, filePath) \/ ParseThrows(g.files[filePath]) THEN "failed"
      ELSE "reloaded"

\* how reload_webhook_config ends
ReloadOutcome(g, configPath) ==
  LET filePath == ReloadFilePath(configPath)
  IN  IF ~ExistsSync(g, filePath) THEN "not found"
      ELSE IF ParseThrows(g.files[filePath]) THEN "failed"
      ELSE "reloaded"

\* mutation: updateWebhookConfig(config) with the default saveToFile = true,
\* the reloaded configuration is written to the backing file
ReloadToolPersists(g, configPath) ==
  IF ReloadOutcome(g, configPath) = "reloaded"
  THEN UpdateWebhookConfig(g, JSONparse(g.files[ReloadFilePath(configPath)]), TRUE, TRUE)
  ELSE g

\* mutation: updateWebhookConfig({ ...getCurrentWebhookConfig(), ...config },
\* false), the members the file does not give keep their value
ReloadToolMerges(g, configPath) ==
  IF ReloadOutcome(g, configPath) = "reloaded"
  THEN LET parsed == JSONparse(g.files[ReloadFilePath(configPath)])
           current == g.currentWebhookConfig
           merged == IF current = Undefined THEN parsed
                     ELSE [k \in DOMAIN parsed |->
                             IF k \in ConfigKeys /\ parsed[k] = Undefined
                             THEN current[k] ELSE parsed[k]]
       IN  UpdateWebhookConfig(g, merged, FALSE, TRUE)
  ELSE g

\* the globals after reload_webhook_config
ReloadTool(g, configPath) ==
  IF ReloadOutcome(g, configPath) = "reloaded"
  THEN UpdateWebhookConfig(g, JSONparse(g.files[ReloadFilePath(configPath)]), FALSE, TRUE)
  ELSE g

\* mutation: the catch clause clears the configuration, as the catch clause
\* of loadWebhookConfig does
WatchListenerClears(g, eventType) ==
  IF eventType = "change"
  THEN LET p == g.webhookConfigPath.value
       IN  [g EXCEPT !.currentWebhookConfig = LoadedValue(g.files[p])]
  ELSE g

\* mutation: `if (currentWebhookConfig && eventType === 'change')`, a disabled
\* webhook is not re-enabled by an edit of the file
WatchListenerOnlyWhenEnabled(g, eventType) ==
  IF eventType = "change" /\ Truthy(g.currentWebhookConfig)
  THEN LET p == g.webhookConfigPath.value
       IN  IF ExistsSync(g, p) /\ ~ParseThrows(g.files[p])
           THEN [g EXCEPT !.currentWebhookConfig = JSONparse(g.files[p])]
           ELSE g
  ELSE g

\* mutation: the test of eventType is missing, every notification reloads
WatchListenerAnyEvent(g, eventType) ==
  LET p == g.webhookConfigPath.value
  IN  IF ExistsSync(g, p) /\ ~ParseThrows(g.files[p])
      THEN [g EXCEPT !.currentWebhookConfig = JSONparse(g.files[p])]
      ELSE g

\* the listener given to watch(): (eventType) => { ... }
WatchListener(g, eventType) ==
  IF eventType = "change"
  THEN LET p == g.webhookConfigPath.value
       IN  IF ExistsSync(g, p) /\ ~ParseThrows(g.files[p])
           THEN [g EXCEPT !.currentWebhookConfig = JSONparse(g.files[p])]
           ELSE g
  ELSE g

(***************************************************************************)
(* The filter of client.on('message').                                     *)
(***************************************************************************)
\* allowedNumbers.includes(number)
Includes(arr, v) == \E i \in 1..Len(arr.items) : arr.items[i] = v

\* allowedNumbers?.length is truthy
HasLength(arr) == IF arr = Undefined THEN FALSE ELSE Len(arr.items) # 0

\* mutation: the flags are tested with `!flag` instead of `=== false`, so a
\* flag that is absent counts as false
FilterRejectsFalsy(webhookConfig, isGroup, number) ==
  LET filters == webhookConfig.filters
  IN  \/ isGroup /\ ~Truthy(OptChain(filters, "allowGroups"))
      \/ ~isGroup /\ ~Truthy(OptChain(filters, "allowPrivate"))
      \/ /\ HasLength(OptChain(filters, "allowedNumbers"))
         /\ ~Includes(filters.allowedNumbers, number)

\* mutation: `.length` is dropped, so an empty allowedNumbers admits nobody
FilterRejectsEmptyList(webhookConfig, isGroup, number) ==
  LET filters == webhookConfig.filters
  IN  \/ isGroup /\ OptChain(filters, "allowGroups") = Bool(FALSE)
      \/ ~isGroup /\ OptChain(filters, "allowPrivate") = Bool(FALSE)
      \/ /\ OptChain(filters, "allowedNumbers") # Undefined
         /\ ~Includes(filters.allowedNumbers, number)

\* the condition of `if (...) { return; }`: the event is skipped
FilterRejects(webhookConfig, isGroup, number) ==
  LET filters == webhookConfig.filters
  IN  \/ isGroup /\ OptChain(filters, "allowGroups") = Bool(FALSE)
      \/ ~isGroup /\ OptChain(filters, "allowPrivate") = Bool(FALSE)
      \/ /\ HasLength(OptChain(filters, "allowedNumbers"))
         /\ ~Includes(filters.allowedNumbers, number)

\* the event goes on to prepareWebhookPayload
Accepts(webhookConfig, isGroup, number) == ~FilterRejects(webhookConfig, isGroup, number)

(***************************************************************************)
(* Inputs.                                                                 *)
(***************************************************************************)
OptToken == {Undefined} \cup Tokens

OptPath == {Undefined} \cup {Str(p) : p \in Paths}

\* the filters arguments given to update_webhook_config
ToolFilterArgs ==
  {Undefined, MkFilters(Arr(<<Str(NumberNames[1])>>), Undefined, Bool(FALSE))}

\* a configuration written by hand into a file: no authToken, no filters
HandWritten == MkConfig(Str("https://a.test/hook"), Undefined, Undefined)

\* what an editor outside the process leaves in a file
EditedContents == {Malformed, JSONstringify(HandWritten)}

\* the configPath arguments given to update_webhook_config
CustomPathArgs == {Undefined, Str("data/webhook.json")}

\* the saveToFile arguments given to the tools: omitted, or false
SaveArgs == {Undefined, Bool(FALSE)}

\* config.authDataPath of createWhatsAppClient
AuthDataPathArgs == {Undefined, Str("data")}

\* the model keeps the queue of notifications and the open observations finite
Bounded(g) == Len(g.pending) <= MaxPending /\ Cardinality(g.watches) <= MaxWatchers

(***************************************************************************)
(* Steps of the configuration store.                                       *)
(***************************************************************************)
\* export function createWhatsAppClient(config): the (re-)initialization
createWhatsAppClient(authDataPathArg) ==
  LET authDataPath == IF Truthy(authDataPathArg) THEN authDataPathArg.value
                      ELSE ".wwebjs_auth"
      g == LoadWebhookConfig(Globals, authDataPath)
  IN  /\ Bounded(g)
      /\ Commit(g)
      /\ UNCHANGED <<probe, events, posts>>
      /\ installed' = IF files[PathJoin(authDataPath)] \in {Absent, Malformed}
                       THEN Undefined
                       ELSE JSONparse(files[PathJoin(authDataPath)])
      /\ last' = [op |-> "createWhatsAppClient",
                  path |-> PathJoin(authDataPath),
                  closed |-> configWatcher # Undefined,
                  returned |-> g.currentWebhookConfig,
                  threw |-> LoadWebhookConfigThrows(Globals, authDataPath)]

\* server.tool('update_webhook_config', ...)
update_webhook_config(url, authToken, configPath, saveToFileArg, filters, ioOk, ioOk2) ==
  LET saveToFile == DefaultTrue(saveToFileArg)
      newConfig == NewConfig(url, authToken, filters)
      g == UpdateTool(Globals, newConfig, saveToFile, configPath, ioOk, ioOk2)
  IN  /\ Bounded(g)
      /\ Commit(g)
      /\ UNCHANGED <<probe, events, posts>>
      /\ installed' = newConfig
      /\ last' = [op |-> "update_webhook_config",
                  filters |-> filters,
                  newConfig |-> newConfig,
                  saveToFile |-> saveToFile,
                  configPath |-> configPath,
                  write |-> WriteOutcome(Globals, newConfig, saveToFile, ioOk),
                  threw |-> UpdateWebhookConfigThrows(Globals, newConfig, saveToFile, ioOk),
                  isError |-> \/ UpdateWebhookConfigThrows(Globals, newConfig, saveToFile, ioOk)
                              \/ UpdateIsError(newConfig, saveToFile, configPath, ioOk, ioOk2)]

\* server.tool('disable_webhook', ...)
disable_webhook(saveToFileArg, ioOk) ==
  LET saveToFile == DefaultTrue(saveToFileArg)
      g == UpdateWebhookConfig(Globals, Undefined, saveToFile, ioOk)
  IN  /\ Bounded(g)
      /\ Commit(g)
      /\ UNCHANGED <<probe, events, posts>>
      /\ installed' = Undefined
      /\ last' = [op |-> "disable_webhook",
                  newConfig |-> Undefined,
                  saveToFile |-> saveToFile,
                  write |-> WriteOutcome(Globals, Undefined, saveToFile, ioOk),
                  threw |-> UpdateWebhookConfigThrows(Globals, Undefined, saveToFile, ioOk),
                  isError |-> UpdateWebhookConfigThrows(Globals, Undefined, saveToFile, ioOk)]

\* server.tool('reload_webhook_config', ...)
reload_webhook_config(configPath) ==
  LET outcome == ReloadOutcome(Globals, configPath)
      g == ReloadTool(Globals, configPath)
  IN  /\ Commit(g)
      /\ UNCHANGED <<probe, events, posts>>
      /\ installed' = IF outcome = "reloaded"
                       THEN JSONparse(files[ReloadFilePath(configPath)])
                       ELSE installed
      /\ last' = [op |-> "reload_webhook_config",
                  configPath |-> configPath,
                  filePath |-> ReloadFilePath(configPath),
                  outcome |-> outcome,
                  isError |-> outcome # "reloaded"]

\* server.tool('get_current_webhook_config', ...)
get_current_webhook_config ==
  /\ UNCHANGED <<storeVars, installed, probe, events, posts>>
  /\ last' = [op |-> "get_current_webhook_config",
              config |-> GetCurrentWebhookConfig(Globals),
              isError |-> FALSE]

\* the event loop calls the listener of the oldest queued notification
WatcherNotification ==
  /\ pending # <<>>
  /\ LET n == Head(pending)
         g0 == [Globals EXCEPT !.pending = Tail(pending)]
         g == WatchListener(g0, n.eventType)
         p == webhookConfigPath.value
         parsed == n.eventType = "change" /\ ExistsSync(g0, p) /\ ~ParseThrows(files[p])
     IN  /\ Commit(g)
         /\ UNCHANGED <<probe, events, posts>>
         /\ installed' = IF parsed THEN JSONparse(files[p]) ELSE installed
         /\ last' = [op |-> "watcher", eventType |-> n.eventType, reloaded |-> parsed]

\* somebody outside the process overwrites a file in place
ExternalEdit(p, content) ==
  LET g == Notify([Globals EXCEPT !.files[p] = content], p, "change")
  IN  /\ files[p] # content
      /\ Bounded(g)
      /\ Commit(g)
      /\ UNCHANGED <<probe, events, posts>>
      /\ UNCHANGED installed
      /\ last' = [op |-> "external edit", path |-> p]

\* somebody outside the process replaces a file by renaming a new one over it
ExternalReplace(p, content) ==
  LET g == Notify([Globals EXCEPT !.files[p] = content], p, "rename")
  IN  /\ files[p] # content
      /\ Bounded(g)
      /\ Commit(g)
      /\ UNCHANGED <<probe, events, posts>>
      /\ UNCHANGED installed
      /\ last' = [op |-> "external replace", path |-> p]

(***************************************************************************)
(* The configuration store: specification.                                 *)
(***************************************************************************)
vars == <<storeVars, installed, last, probe, events, posts>>

NoProbe == [fn |-> "none"]

\* the module is loaded: nothing is configured, no path is known, and the
\* data directories hold whatever earlier runs or the operator left there
Init ==
  /\ currentWebhookConfig = Undefined
  /\ configWatcher = Undefined
  /\ webhookConfigPath = Undefined
  /\ files \in [Paths -> {Absent, JSONstringify(HandWritten)}]
  /\ watches = {}
  /\ pending = <<>>
  /\ installed = Undefined
  /\ last = [op |-> "module loaded"]
  /\ probe = NoProbe
  /\ events = <<>>
  /\ posts = <<>>

\* the file system may refuse a write only where a write is attempted
IoChoices(attempted) == IF attempted THEN BOOLEAN ELSE {TRUE}

StoreNext ==
  \/ \E a \in AuthDataPathArgs : createWhatsAppClient(a)
  \/ \E url \in Urls, authToken \in OptToken, configPath \in CustomPathArgs,
        saveToFileArg \in SaveArgs, filters \in {Undefined} :
        \E ioOk \in IoChoices(Saves(Globals, DefaultTrue(saveToFileArg))),
           ioOk2 \in IoChoices(SavesCustom(DefaultTrue(saveToFileArg), configPath)) :
          update_webhook_config(url, authToken, configPath, saveToFileArg, filters, ioOk, ioOk2)
  \/ \E saveToFileArg \in SaveArgs :
        \E ioOk \in IoChoices(Saves(Globals, DefaultTrue(saveToFileArg))) :
          disable_webhook(saveToFileArg, ioOk)
  \/ \E configPath \in OptPath : reload_webhook_config(configPath)
  \/ get_current_webhook_config
  \/ WatcherNotification
  \/ \E p \in Paths, content \in EditedContents : ExternalEdit(p, content)
  \/ \E p \in Paths, content \in EditedContents : ExternalReplace(p, content)

Next == StoreNext

Spec == Init /\ [][Next]_vars

(***************************************************************************)
(* client.on('message', async (message) => { ... }) and                    *)
(* prepareWebhookPayload: one run of the handler per inbound message. The  *)
(* handler is suspended at each await of an external operation.            *)
(***************************************************************************)
\* A message as the handler reads it: message.from.includes('@g.us'),
\* contact.number, message.type, message.hasMedia, message.hasQuotedMsg
Msg(isGroup, number, type, hasMedia, hasQuotedMsg, body) ==
  [isGroup |-> isGroup, number |-> number, type |-> type,
   hasMedia |-> hasMedia, hasQuotedMsg |-> hasQuotedMsg, body |-> body]

\* the messages that arrive: a private text, a group text that quotes a
\* message, and a private image, from two senders
Messages ==
  {Msg(FALSE, Str(NumberNames[1]), "text", FALSE, FALSE, Str("hello")),
   Msg(TRUE, Str(NumberNames[2]), "text", FALSE, TRUE, Str("hello")),
   Msg(FALSE, Str(NumberNames[2]), "image", TRUE, FALSE, Str(""))}

\* mutation: the raw kind is passed through as the messageType
MessageTypeOfRaw(type) == type

\* the switch (message.type) of prepareWebhookPayload
MessageTypeOf(type) ==
  IF type \in {"text", "image", "video", "audio", "voice", "document", "sticker",
               "location", "contact", "reaction", "group_invite"}
  THEN type ELSE "unknown"

\* a member of the message that the model's messages may leave out
Field(message, name) == IF name \in DOMAIN message THEN message[name] ELSE Undefined

\* v || d
OrElse(v, d) == IF Truthy(v) THEN v ELSE d

\* enhancedPayload.content as the switch (message.type) sets it
ContentOf(message) ==
  LET body == message.body
      type == message.type
      duration == OrElse(Field(message, "duration"), Num(0))
  IN  CASE type = "text" -> [text |-> body]
        [] type = "image" ->
             [caption |-> OrElse(body, Str("")), hasMedia |-> TRUE, mediaType |-> "image"]
        [] type = "video" ->
             [caption |-> OrElse(body, Str("")), hasMedia |-> TRUE, mediaType |-> "video",
              duration |-> duration]
        [] type = "audio" ->
             [hasMedia |-> TRUE, mediaType |-> "audio", duration |-> duration,
              isVoiceMessage |-> FALSE]
        [] type = "voice" ->
             [hasMedia |-> TRUE, mediaType |-> "voice", duration |-> duration,
              isVoiceMessage |-> TRUE]
        [] type = "document" ->
             [caption |-> OrElse(body, Str("")), hasMedia |-> TRUE, mediaType |-> "document",
              filename |-> OrElse(Field(message, "filename"), Str("unknown"))]
        [] type = "sticker" -> [hasMedia |-> TRUE, mediaType |-> "sticker"]
        [] type = "location" ->
             [location |->
                [latitude |-> OptChain(Field(message, "location"), "latitude"),
                 longitude |-> OptChain(Field(message, "location"), "longitude"),
                 name |-> OptChain(Field(message, "location"), "name"),
                 address |-> OptChain(Field(message, "location"), "address")]]
        [] type = "contact" -> [contact |-> OrElse(Field(message, "vCards"), Arr(<<>>))]
        [] type = "reaction" ->
             [reaction |-> body, quotedMessageId |-> Field(message, "quotedMsgId")]
        [] type = "group_invite" ->
             [inviteCode |-> OptChain(Field(message, "inviteV4"), "inviteCode"),
              inviteExpiration |-> OptChain(Field(message, "inviteV4"), "inviteExpiration")]
        [] OTHER -> [text |-> OrElse(body, Str("")), hasMedia |-> message.hasMedia]

\* enhancedPayload before the first await of prepareWebhookPayload
BasePayload(message) ==
  [from |-> message.number,
   message |-> message.body,
   isGroup |-> message.isGroup,
   type |-> message.type,
   hasQuotedMsg |-> message.hasQuotedMsg,
   messageType |-> MessageTypeOf(message.type),
   content |-> ContentOf(message),
   media |-> "absent",
   quotedMessage |-> "absent",
   group |-> "absent"]

\* the awaits of prepareWebhookPayload in program order, then the POST
Stages == <<"downloadMedia", "getQuotedMessage", "getChat", "post">>

\* mutation: every lookup is made for every message
AppliesToAll(message, k) == TRUE

\* whether the run of the handler for `message` goes through stage k
Applies(message, k) ==
  CASE Stages[k] = "downloadMedia" -> message.hasMedia
    [] Stages[k] = "getQuotedMessage" -> message.hasQuotedMsg
    [] Stages[k] = "getChat" -> message.isGroup
    [] OTHER -> TRUE

\* mutation: the lookups of prepareWebhookPayload are started without await,
\* the request follows at once
StageAfterNoAwait(message, k) == "post"

\* the first stage after stage k that the run goes through
StageAfter(message, k) ==
  Stages[CHOOSE j \in (k + 1)..Len(Stages) :
           /\ Applies(message, j)
           /\ \A i \in (k + 1)..(j - 1) : ~Applies(message, i)]

StageIndex(stage) == CHOOSE k \in 1..Len(Stages) : Stages[k] = stage

\* the handler goes on, after stage `stage` has returned, to its next await
Proceed(e, stage) ==
  LET next == StageAfter(e.message, IF stage = "filter" THEN 0 ELSE StageIndex(stage))
  IN  [e EXCEPT !.pc = next, !.trace = Append(e.trace, next)]

\* mutation: the request is made from currentWebhookConfig as it is when the
\* payload is ready
DispatchConfigCurrent(e) ==
  IF Truthy(currentWebhookConfig) THEN currentWebhookConfig ELSE e.webhookConfig

\* the configuration the request of axios.post is made from
DispatchConfig(e) == e.webhookConfig

\* `Bearer ${authToken}`
Bearer(authToken) == Str("Bearer " \o authToken.value)

\* mutation: the header is built without the test of authToken
HeadersAlwaysBearer(authToken) ==
  [contentType |-> "application/json",
   authorization |-> Str("Bearer " \o (IF authToken = Undefined THEN "undefined"
                                       ELSE authToken.value))]

\* { 'Content-Type': 'application/json',
\*   ...(authToken ? { Authorization: `Bearer ${authToken}` } : {}) }
Headers(authToken) ==
  [contentType |-> "application/json",
   authorization |-> IF Truthy(authToken) THEN Bearer(authToken) ELSE Undefined]

\* mutation: the url comes from the constant read before the filter, the
\* token from currentWebhookConfig as it is when the request is made
RequestMixed(i, e) ==
  LET authToken == IF Truthy(currentWebhookConfig) THEN currentWebhookConfig.authToken
                   ELSE Undefined
  IN  [event |-> i,
       url |-> DispatchConfig(e).url,
       contentType |-> Headers(authToken).contentType,
       authorization |-> Headers(authToken).authorization,
       payload |-> e.payload]

\* axios.post(webhookConfig.url, webhookPayload, { headers })
Request(i, e) ==
  [event |-> i,
   url |-> DispatchConfig(e).url,
   contentType |-> Headers(DispatchConfig(e).authToken).contentType,
   authorization |-> Headers(DispatchConfig(e).authToken).authorization,
   payload |-> e.payload]

\* mutation: `if (!currentWebhookConfig || <filter on it>) return;` before
\* axios.post, the configuration is looked at again when the payload is ready
ResumeRechecks(i, e) ==
  /\ events' = [events EXCEPT ![i] =
       IF e.pc = "post"
          /\ (\/ ~Truthy(currentWebhookConfig)
              \/ FilterRejects(currentWebhookConfig, e.message.isGroup, e.message.number))
       THEN [e EXCEPT !.pc = "done", !.outcome = "skipped"] ELSE e]
  /\ posts' = IF events'[i].pc = "post" THEN Append(posts, Request(i, e)) ELSE posts
  /\ UNCHANGED <<storeVars, installed, probe, last>>

\* mutation: the requests are queued in order of arrival, a run issues its
\* request only after the runs of the earlier messages have ended
ResumeInOrder(i, e) ==
  /\ e.pc = "post" => \A h \in 1..(i - 1) : events[h].pc = "done"
  /\ events' = [events EXCEPT ![i] = e]
  /\ posts' = IF e.pc = "post" THEN Append(posts, Request(i, e)) ELSE posts
  /\ UNCHANGED <<storeVars, installed, probe, last>>

\* the run i of the handler becomes e; a run that reaches axios.post issues
\* its request at once
Resume(i, e) ==
  /\ events' = [events EXCEPT ![i] = e]
  /\ posts' = IF e.pc = "post" THEN Append(posts, Request(i, e)) ELSE posts
  /\ UNCHANGED <<storeVars, installed, probe, last>>

Finish(e, outcome) == [e EXCEPT !.pc = "done", !.outcome = outcome]

\* the client emits 'message': the handler starts and awaits
\* message.getContact(); the model takes at most `cap` messages
Arrives(message, cap) ==
  /\ webhookConfigPath # Undefined
  /\ Len(events) < cap
  /\ events' = Append(events,
       [message |-> message,
        pc |-> "getContact",
        trace |-> <<"getContact">>,
        read |-> [type |-> "not read"],
        webhookConfig |-> Undefined,
        payload |-> Undefined,
        response |-> [kind |-> "none"],
        answers |-> [downloadMedia |-> "none", getQuotedMessage |-> "none",
                     getChat |-> "none"],
        outcome |-> "pending"])
  /\ UNCHANGED <<storeVars, installed, probe, posts, last>>

MessageArrives(message) == Arrives(message, MaxEvents)

\* mutation: the filter check is missing
AfterContactNoFilter(e, config) ==
  LET e1 == [e EXCEPT !.webhookConfig = config]
  IN  IF ~Truthy(config) THEN Finish(e1, "skipped")
      ELSE Proceed([e1 EXCEPT !.trace = Append(e.trace, "filter"),
                              !.payload = BasePayload(e.message)], "filter")

\* mutation: `currentWebhookConfig || <the configuration of the file>`, an
\* undefined configuration falls back to one written earlier
AfterContactFallback(e, config) ==
  LET used == IF Truthy(config) THEN config ELSE HandWritten
      e1 == [e EXCEPT !.webhookConfig = used]
  IN  IF FilterRejects(used, e.message.isGroup, e.message.number)
      THEN Finish([e1 EXCEPT !.trace = Append(e.trace, "filter")], "rejected")
      ELSE Proceed([e1 EXCEPT !.trace = Append(e.trace, "filter"),
                              !.payload = BasePayload(e.message)], "filter")

\* the statements from `const webhookConfig = currentWebhookConfig` to the
\* first await of prepareWebhookPayload (or to axios.post)
AfterContact(e, config) ==
  LET e1 == [e EXCEPT !.webhookConfig = config]
  IN  IF ~Truthy(config) THEN Finish(e1, "skipped")
      ELSE IF FilterRejects(config, e.message.isGroup, e.message.number)
           THEN Finish([e1 EXCEPT !.trace = Append(e.trace, "filter")], "rejected")
           ELSE Proceed([e1 EXCEPT !.trace = Append(e.trace, "filter"),
                                   !.payload = BasePayload(e.message)], "filter")

\* await message.getContact() returns, or rejects (nothing catches it)
GetContactReturns(i, ok) ==
  /\ i \in DOMAIN events
  /\ events[i].pc = "getContact"
  /\ Resume(i, IF ok THEN AfterContact([events[i] EXCEPT !.read = currentWebhookConfig],
                                       currentWebhookConfig)
                ELSE Finish(events[i], "threw"))

\* mutation: no try around downloadMedia, its exception ends the handler
DownloadMediaReturnsAborts(i, result) ==
  /\ i \in DOMAIN events
  /\ events[i].pc = "downloadMedia"
  /\ LET e == [events[i] EXCEPT !.answers.downloadMedia = result]
     IN  Resume(i, CASE result = "media" ->
                          Proceed([e EXCEPT !.payload.media = "descriptor"], "downloadMedia")
                     [] result = "throws" -> Finish(e, "threw")
                     [] OTHER -> Proceed(e, "downloadMedia"))

\* await message.downloadMedia() returns a media, returns undefined, or throws
DownloadMediaReturns(i, result) ==
  /\ i \in DOMAIN events
  /\ events[i].pc = "downloadMedia"
  /\ LET e == events[i]
         e0 == [e EXCEPT !.answers.downloadMedia = result]
         e1 == CASE result = "media" -> [e0 EXCEPT !.payload.media = "descriptor"]
                 [] result = "throws" -> [e0 EXCEPT !.payload.media = "error"]
                 [] OTHER -> e0
     IN  Resume(i, Proceed(e1, "downloadMedia"))

\* await message.getQuotedMessage() returns or throws
GetQuotedMessageReturns(i, ok) ==
  /\ i \in DOMAIN events
  /\ events[i].pc = "getQuotedMessage"
  /\ LET e == events[i]
         e0 == [e EXCEPT !.answers.getQuotedMessage = IF ok THEN "ok" ELSE "throws"]
         e1 == IF ok THEN [e0 EXCEPT !.payload.quotedMessage = "present"] ELSE e0
     IN  Resume(i, Proceed(e1, "getQuotedMessage"))

\* mutation: no try around getChat, its exception ends the handler
GetChatReturnsAborts(i, ok) ==
  /\ i \in DOMAIN events
  /\ events[i].pc = "getChat"
  /\ LET e == [events[i] EXCEPT !.answers.getChat = IF ok THEN "ok" ELSE "throws"]
     IN  Resume(i, IF ok THEN Proceed([e EXCEPT !.payload.group = "present"], "getChat")
                   ELSE Finish(e, "threw"))

\* await message.getChat() returns or throws
GetChatReturns(i, ok) ==
  /\ i \in DOMAIN events
  /\ events[i].pc = "getChat"
  /\ LET e == events[i]
         e0 == [e EXCEPT !.answers.getChat = IF ok THEN "ok" ELSE "throws"]
         e1 == IF ok THEN [e0 EXCEPT !.payload.group = "present"] ELSE e0
     IN  Resume(i, Proceed(e1, "getChat"))

\* what comes back for a request: a response with a status, or nothing
Response(status) == [kind |-> "response", status |-> status]

NoResponse == [kind |-> "transport error"]

PostResults == {Response(200), Response(500)}

\* the same with the statuses at the edge of [200, 300) and with a request
\* that gets no response
EdgeResults == PostResults \cup {Response(299), Response(300), NoResponse}

\* the promise of axios.post resolves for a status in [200, 300) and rejects
\* for any other status and when no response arrives
AxiosResolves(result) ==
  result.kind = "response" /\ result.status >= 200 /\ result.status < 300

\* if (response.status < 200 || response.status >= 300) { logger.warn(...) }
StatusWarns(status) == status < 200 \/ status >= 300

\* how the handler classifies what came back: a rejected promise goes to the
\* catch clause, which logs it
Classify(result) ==
  IF AxiosResolves(result)
  THEN IF StatusWarns(result.status) THEN "failed" ELSE "delivered"
  ELSE "failed"

\* mutation: a failed delivery is sent once more
PostReturnsRetries(i, result) ==
  /\ i \in DOMAIN events
  /\ events[i].pc = "post"
  /\ Resume(i, IF /\ Classify(result) = "failed"
                   /\ Cardinality({k \in 1..Len(posts) : posts[k].event = i}) < 2
                THEN [events[i] EXCEPT !.response = result]
                ELSE [Finish(events[i], Classify(result)) EXCEPT !.response = result])

\* mutation: a circuit breaker, a failed delivery disables the webhook
PostReturnsDisables(i, result) ==
  /\ i \in DOMAIN events
  /\ events[i].pc = "post"
  /\ events' = [events EXCEPT
                  ![i] = [Finish(events[i], Classify(result)) EXCEPT !.response = result]]
  /\ currentWebhookConfig' = IF Classify(result) = "failed" THEN Undefined
                              ELSE currentWebhookConfig
  /\ UNCHANGED <<configWatcher, webhookConfigPath, files, watches, pending>>
  /\ UNCHANGED <<posts, installed, probe, last>>

\* await axios.post(...) returns or rejects; the handler ends
PostReturns(i, result) ==
  /\ i \in DOMAIN events
  /\ events[i].pc = "post"
  /\ Resume(i, [Finish(events[i], Classify(result)) EXCEPT !.response = result])

MessageNext ==
  \/ \E message \in Messages : MessageArrives(message)
  \/ \E i \in 1..MaxEvents, ok \in BOOLEAN : GetContactReturns(i, ok)
  \/ \E i \in 1..MaxEvents, result \in {"media", "undefined", "throws"} :
        DownloadMediaReturns(i, result)
  \/ \E i \in 1..MaxEvents, ok \in BOOLEAN : GetQuotedMessageReturns(i, ok)
  \/ \E i \in 1..MaxEvents, ok \in BOOLEAN : GetChatReturns(i, ok)
  \/ \E i \in 1..MaxEvents, result \in PostResults : PostReturns(i, result)

(***************************************************************************)
(* Messages arriving while the configuration changes: specification.       *)
(***************************************************************************)
\* the client has not been created yet; .wwebjs_auth/webhook.json holds a
\* configuration written by hand
InitEvents ==
  /\ currentWebhookConfig = Undefined
  /\ configWatcher = Undefined
  /\ webhookConfigPath = Undefined
  /\ files = [p \in Paths |-> IF p = ".wwebjs_auth/webhook.json"
                              THEN JSONstringify(HandWritten) ELSE Absent]
  /\ watches = {}
  /\ pending = <<>>
  /\ installed = Undefined
  /\ last = [op |-> "module loaded"]
  /\ probe = NoProbe
  /\ events = <<>>
  /\ posts = <<>>

\* the configuration changes that interleave with the handler runs
ConfigNext ==
  \/ createWhatsAppClient(Undefined)
  \/ \E filters \in ToolFilterArgs :
        update_webhook_config(Str("https://b.test/hook"),
                              IF filters = Undefined THEN Undefined ELSE Str("secret"),
                              Undefined, Bool(FALSE), filters, TRUE, TRUE)
  \/ \E saveToFileArg \in SaveArgs : disable_webhook(saveToFileArg, TRUE)
  \/ \E content \in EditedContents : ExternalEdit(".wwebjs_auth/webhook.json", content)
  \/ WatcherNotification

EventsNext ==
  \/ ConfigNext
  \/ MessageNext

SpecEvents == InitEvents /\ [][EventsNext]_vars

(***************************************************************************)
(* server.tool('test_webhook', ...): a sample payload is sent to the url   *)
(* given.                                                                  *)
(***************************************************************************)
\* const testPayload = { ... }; the timestamp is the time of the call
testPayload ==
  [from |-> "1234567890",
   name |-> "Test User",
   message |-> "This is a test message",
   isGroup |-> FALSE,
   timestamp |-> "Math.floor(Date.now() / 1000)",
   messageId |-> "test_message_id",
   fromMe |-> FALSE,
   type |-> "text",
   deviceType |-> "android",
   isForwarded |-> FALSE,
   isStarred |-> FALSE,
   hasQuotedMsg |-> FALSE,
   hasReaction |-> FALSE,
   isEphemeral |-> FALSE,
   messageType |-> "text",
   content |-> [text |-> "This is a test message"]]

\* mutation: `url || getCurrentWebhookConfig()?.url`, the test goes to the
\* configured endpoint with the configured token when there is one
TestRequestFromStore(url, authToken) ==
  LET config == currentWebhookConfig
  IN  [url |-> IF Truthy(config) THEN config.url ELSE url,
       contentType |-> "application/json",
       authorization |-> Headers(IF Truthy(config) THEN config.authToken
                                 ELSE authToken).authorization,
       payload |-> testPayload]

\* axios.post(url, testPayload, { headers })
TestRequest(url, authToken) ==
  [url |-> url,
   contentType |-> Headers(authToken).contentType,
   authorization |-> Headers(authToken).authorization,
   payload |-> testPayload]

\* try { ... } catch (error) { return { ..., isError: true } }: whether an
\* exception leaves the tool
TestWebhookThrows(result) ==
  /\ ~AxiosResolves(result)
  /\ FALSE  \* the catch clause takes every exception and returns a result

\* server.tool('test_webhook', ...)
test_webhook(url, authToken, result) ==
  /\ UNCHANGED <<storeVars, installed, probe, events, posts>>
  /\ last' = [op |-> "test_webhook",
              url |-> url,
              authToken |-> authToken,
              request |-> TestRequest(url, authToken),
              response |-> result,
              text |-> IF AxiosResolves(result) THEN "Webhook test completed"
                       ELSE "Webhook test failed",
              threw |-> TestWebhookThrows(result),
              isError |-> ~AxiosResolves(result)]

\* the authToken arguments given to the tools: omitted, a token, or the
\* empty string, which z.string() lets through
TokenArgs == {Undefined, Str("secret"), Str("")}

(***************************************************************************)
(* Deliveries and test deliveries: specification.                          *)
(***************************************************************************)
\* the client emits its first 'message'
FirstMessageArrives(message) ==
  /\ events = <<>>
  /\ Arrives(message, MaxEvents)

\* the tools are called while one message is handled
TestNext ==
  \/ createWhatsAppClient(Undefined)
  \/ \E authToken \in TokenArgs :
        update_webhook_config(Str("https://b.test/hook"), authToken, Undefined,
                              Bool(FALSE), Undefined, TRUE, TRUE)
  \/ disable_webhook(Bool(FALSE), TRUE)
  \/ \E url \in Urls, authToken \in TokenArgs, result \in EdgeResults :
        test_webhook(url, authToken, result)
  \/ \E message \in Messages : FirstMessageArrives(message)
  \/ \E i \in DOMAIN events, ok \in BOOLEAN : GetContactReturns(i, ok)
  \/ \E i \in DOMAIN events, result \in {"media", "undefined", "throws"} :
        DownloadMediaReturns(i, result)
  \/ \E i \in DOMAIN events, ok \in BOOLEAN : GetQuotedMessageReturns(i, ok)
  \/ \E i \in DOMAIN events, ok \in BOOLEAN : GetChatReturns(i, ok)
  \/ \E i \in DOMAIN events, result \in PostResults : PostReturns(i, result)

SpecTest == InitEvents /\ [][TestNext]_vars

(***************************************************************************)
(* Payload construction for every kind of message: specification.          *)
(***************************************************************************)
\* the kinds the switch of prepareWebhookPayload names
HandledKinds ==
  {"text", "image", "video", "audio", "voice", "document", "sticker",
   "location", "contact", "reaction", "group_invite"}

\* kinds the switch does not name
OtherKinds == {"chat", "ptt", "vcard", "poll_creation", "revoked"}

RawKinds == HandledKinds \cup OtherKinds

\* messages of every kind, private and group, with and without media, quote
\* and body
BuildMessages ==
  {Msg(isGroup, Str(NumberNames[1]), type, hasMedia, hasQuotedMsg, body) :
     isGroup \in BOOLEAN, type \in RawKinds, hasMedia \in BOOLEAN,
     hasQuotedMsg \in BOOLEAN, body \in {Str("hello"), Str("")}}

\* one message is handled under a configuration without filters
BuildNext ==
  \/ createWhatsAppClient(Undefined)
  \/ update_webhook_config(Str("https://b.test/hook"), Undefined, Undefined,
                           Bool(FALSE), Undefined, TRUE, TRUE)
  \/ \E message \in BuildMessages : FirstMessageArrives(message)
  \/ \E i \in DOMAIN events, ok \in BOOLEAN : GetContactReturns(i, ok)
  \/ \E i \in DOMAIN events, result \in {"media", "undefined", "throws"} :
        DownloadMediaReturns(i, result)
  \/ \E i \in DOMAIN events, ok \in BOOLEAN : GetQuotedMessageReturns(i, ok)
  \/ \E i \in DOMAIN events, ok \in BOOLEAN : GetChatReturns(i, ok)
  \/ \E i \in DOMAIN events, result \in PostResults : PostReturns(i, result)

SpecBuild == InitEvents /\ [][BuildNext]_vars

(***************************************************************************)
(* Updates with every filters argument: specification.                     *)
(***************************************************************************)
\* the filters arguments: omitted, or any of its members omitted or given
UpdateFilterArgs ==
  {Undefined} \cup
  {MkFilters(n, p, g) : n \in {Undefined, Arr(<<>>), Arr(<<Str(NumberNames[1])>>)},
                        p \in OptBool, g \in OptBool}

UpdateNext ==
  \/ createWhatsAppClient(Undefined)
  \/ \E filters \in UpdateFilterArgs, saveToFileArg \in SaveArgs :
        \E ioOk \in IoChoices(Saves(Globals, DefaultTrue(saveToFileArg))) :
          update_webhook_config(Str("https://a.test/hook"), Undefined, Undefined,
                                saveToFileArg, filters, ioOk, TRUE)
  \/ get_current_webhook_config

SpecUpdate == Init /\ [][UpdateNext]_vars

(***************************************************************************)
(* The configuration changes under a suspended handler: specification.     *)
(***************************************************************************)
\* a run of the handler has started and has not issued its request yet
Suspended ==
  \E i \in DOMAIN events :
    events[i].pc \in {"getContact", "downloadMedia", "getQuotedMessage", "getChat"}

\* the client is created, one message arrives, and the configuration changes
\* only while the handler of that message is suspended before its request
BetweenNext ==
  \/ events = <<>> /\ createWhatsAppClient(Undefined)
  \/ \E message \in Messages : FirstMessageArrives(message)
  \/ \E i \in DOMAIN events, ok \in BOOLEAN : GetContactReturns(i, ok)
  \/ \E i \in DOMAIN events, result \in {"media", "undefined", "throws"} :
        DownloadMediaReturns(i, result)
  \/ \E i \in DOMAIN events, ok \in BOOLEAN : GetQuotedMessageReturns(i, ok)
  \/ \E i \in DOMAIN events, ok \in BOOLEAN : GetChatReturns(i, ok)
  \/ \E i \in DOMAIN events, result \in PostResults : PostReturns(i, result)
  \/ /\ Suspended
     /\ \E filters \in ToolFilterArgs :
          update_webhook_config(Str("https://b.test/hook"),
                                IF filters = Undefined THEN Undefined ELSE Str("secret"),
                                Undefined, Bool(FALSE), filters, TRUE, TRUE)
  \/ Suspended /\ disable_webhook(Bool(FALSE), TRUE)
  \/ /\ Suspended
     /\ \E content \in EditedContents : ExternalEdit(".wwebjs_auth/webhook.json", content)
  \/ Suspended /\ WatcherNotification

SpecBetween == InitEvents /\ [][BetweenNext]_vars

(***************************************************************************)
(* Messages arriving while earlier ones are handled: specification.        *)
(***************************************************************************)
\* the client emits 'message' whatever the runs of the handler are doing
MessageArrivesDuring(message) == Arrives(message, 1 + MaxLater)

\* what a run of the handler awaits comes back
Returns(i) ==
  \/ \E ok \in BOOLEAN : GetContactReturns(i, ok)
  \/ \E result \in {"media", "undefined", "throws"} : DownloadMediaReturns(i, result)
  \/ \E ok \in BOOLEAN : GetQuotedMessageReturns(i, ok)
  \/ \E ok \in BOOLEAN : GetChatReturns(i, ok)
  \/ \E result \in PostResults : PostReturns(i, result)

\* the handler runs of several messages interleave under the configuration
\* of the file
OrderNext ==
  \/ createWhatsAppClient(Undefined)
  \/ \E message \in Messages : MessageArrivesDuring(message)
  \/ \E i \in DOMAIN events : Returns(i)

SpecOrder == InitEvents /\ [][OrderNext]_vars

(***************************************************************************)
(* Every awaited operation comes back: specification with fairness.        *)
(***************************************************************************)
\* one message is handled while the webhook is configured, restricted or
\* disabled
LiveNext ==
  \/ createWhatsAppClient(Undefined)
  \/ \E filters \in ToolFilterArgs :
        update_webhook_config(Str("https://b.test/hook"), Undefined, Undefined,
                              Bool(FALSE), filters, TRUE, TRUE)
  \/ disable_webhook(Bool(FALSE), TRUE)
  \/ \E message \in Messages : FirstMessageArrives(message)
  \/ \E i \in DOMAIN events : Returns(i)

\* getContact, downloadMedia, getQuotedMessage, getChat and axios.post settle:
\* the promise a run awaits is resolved or rejected in the end
Settles == \A i \in 1..MaxEvents : WF_vars(Returns(i))

SpecLive == InitEvents /\ [][LiveNext]_vars /\ Settles

(***************************************************************************)
(* Nobody but the process writes the backing file: specification.          *)
(***************************************************************************)
\* updates with and without persisting, and the notifications of the writes
\* they make
OwnWritesNext ==
  \/ createWhatsAppClient(Undefined)
  \/ \E url \in Urls, authToken \in OptToken, saveToFileArg \in SaveArgs :
        update_webhook_config(url, authToken, Undefined, saveToFileArg, Undefined,
                              TRUE, TRUE)
  \/ disable_webhook(Bool(FALSE), TRUE)
  \/ get_current_webhook_config
  \/ WatcherNotification

SpecOwnWrites == InitEvents /\ [][OwnWritesNext]_vars

(***************************************************************************)
(* Messages arriving one after the other: specification.                   *)
(***************************************************************************)
\* the client emits 'message' after the handler runs of the earlier messages
\* have ended
MessageArrivesAfter(message) ==
  /\ \A i \in DOMAIN events : events[i].pc = "done"
  /\ Arrives(message, 1 + MaxLater)

DeliveryNext ==
  \/ createWhatsAppClient(Undefined)
  \/ \E message \in Messages : MessageArrivesAfter(message)
  \/ \E i \in 1..(1 + MaxLater), ok \in BOOLEAN : GetContactReturns(i, ok)
  \/ \E i \in 1..(1 + MaxLater), result \in {"media", "undefined", "throws"} :
        DownloadMediaReturns(i, result)
  \/ \E i \in 1..(1 + MaxLater), ok \in BOOLEAN : GetQuotedMessageReturns(i, ok)
  \/ \E i \in 1..(1 + MaxLater), ok \in BOOLEAN : GetChatReturns(i, ok)
  \/ \E i \in 1..(1 + MaxLater), result \in EdgeResults : PostReturns(i, result)

SpecDelivery == InitEvents /\ [][DeliveryNext]_vars

(***************************************************************************)
(* The filter as a pure function: every configuration, every event.        *)
(***************************************************************************)
\* a configuration as the store can hold it: parsed from a file as it stands
\* ("file"), or built by update_webhook_config from the same arguments ("tool")
ConfigVia(via, url, authToken, filters) ==
  IF via = "tool" THEN NewConfig(url, authToken, filters)
  ELSE MkConfig(url, authToken, filters)

InitFilter ==
  /\ currentWebhookConfig = Undefined
  /\ configWatcher = Undefined
  /\ webhookConfigPath = Undefined
  /\ files = [p \in Paths |-> Absent]
  /\ watches = {}
  /\ pending = <<>>
  /\ installed = Undefined
  /\ last = [op |-> "module loaded"]
  /\ events = <<>>
  /\ posts = <<>>
  /\ \E via \in {"file", "tool"}, filters \in AllFilters,
        isGroup \in BOOLEAN, number \in Numbers :
        probe = [fn |-> "filter",
                 via |-> via,
                 filtersArg |-> filters,
                 webhookConfig |-> ConfigVia(via, Str("https://a.test/hook"), Undefined, filters),
                 isGroup |-> isGroup,
                 number |-> number,
                 done |-> FALSE,
                 accepted |-> FALSE]

\* the filter check of client.on('message') is applied to the inputs
EvaluateFilter ==
  /\ probe.fn = "filter"
  /\ ~probe.done
  /\ probe' = [probe EXCEPT !.done = TRUE,
                            !.accepted = Accepts(probe.webhookConfig, probe.isGroup, probe.number)]
  /\ UNCHANGED <<storeVars, installed, last, events, posts>>

NextFilter == EvaluateFilter

SpecFilter == InitFilter /\ [][NextFilter]_vars

(***************************************************************************)
(* Properties.                                                             *)
(***************************************************************************)
\* the three rejection rules of the event filter, as the design states them
GroupsBlocked(filters) == filters # Undefined /\ filters.allowGroups = Bool(FALSE)

PrivateBlocked(filters) == filters # Undefined /\ filters.allowPrivate = Bool(FALSE)

Restricted(filters) ==
  /\ filters # Undefined
  /\ filters.allowedNumbers # Undefined
  /\ filters.allowedNumbers.items # <<>>

Member(filters, number) ==
  number \in {filters.allowedNumbers.items[i] : i \in 1..Len(filters.allowedNumbers.items)}

RuleFires(filters, isGroup, number) ==
  \/ isGroup /\ GroupsBlocked(filters)
  \/ ~isGroup /\ PrivateBlocked(filters)
  \/ Restricted(filters) /\ ~Member(filters, number)

Evaluated == probe.fn = "filter" /\ probe.done

\* C1: an event is accepted for forwarding if and only if none of the three
\* rejection rules fires (group and allowGroups false; private and
\* allowPrivate false; allowedNumbers non-empty and the sender not in it); with
\* a non-empty allowedNumbers a sender outside it is rejected whatever the
\* flags are.
C1_AcceptedIffNoRuleFires ==
  Evaluated =>
    LET filters == probe.webhookConfig.filters
    IN  /\ probe.accepted <=> ~RuleFires(filters, probe.isGroup, probe.number)
        /\ Restricted(filters) /\ ~Member(filters, probe.number) => ~probe.accepted

\* a sender outside a non-empty allowedNumbers is rejected although the flag
\* of its kind of chat is true
C1_Witness ==
  /\ Evaluated
  /\ probe.via = "file"
  /\ probe.isGroup
  /\ probe.webhookConfig.filters # Undefined
  /\ probe.webhookConfig.filters.allowGroups = Bool(TRUE)
  /\ Restricted(probe.webhookConfig.filters)
  /\ ~Member(probe.webhookConfig.filters, probe.number)
  /\ ~probe.accepted

\* the value of a flag of the filters given, true when it is absent
FlagOrTrue(filters, key) ==
  IF filters = Undefined THEN TRUE
  ELSE IF filters[key] = Undefined THEN TRUE ELSE filters[key].value

Unrestricted(filters) ==
  \/ filters = Undefined
  \/ filters.allowedNumbers = Undefined
  \/ filters.allowedNumbers.items = <<>>

\* C2: when allowedNumbers is empty or absent, acceptance is decided by
\* allowGroups (group events) or allowPrivate (private events) alone, each
\* true when absent, whether the configuration comes from a file or from
\* update_webhook_config; without a filters object every event is accepted;
\* the sender number plays no part.
C2_UnrestrictedDependsOnFlagsOnly ==
  Evaluated /\ Unrestricted(probe.filtersArg) =>
    /\ probe.accepted =
         FlagOrTrue(probe.filtersArg, IF probe.isGroup THEN "allowGroups" ELSE "allowPrivate")
    /\ probe.filtersArg = Undefined => probe.accepted

\* a private event is accepted under filters that give an empty list and no
\* allowPrivate flag
C2_Witness ==
  /\ Evaluated
  /\ probe.filtersArg # Undefined
  /\ probe.filtersArg.allowedNumbers = Arr(<<>>)
  /\ probe.filtersArg.allowPrivate = Undefined
  /\ probe.filtersArg.allowGroups = Bool(FALSE)
  /\ ~probe.isGroup
  /\ probe.accepted

\* the requests issued for the run i of the handler
PostsOf(i) == {k \in 1..Len(posts) : posts[k].event = i}

BuildStages == {"downloadMedia", "getQuotedMessage", "getChat", "post"}

Went(e, stage) == \E k \in 1..Len(e.trace) : e.trace[k] = stage

\* nothing was built or sent for the run i
Untouched(i) ==
  /\ events[i].payload = Undefined
  /\ \A stage \in BuildStages : ~Went(events[i], stage)
  /\ PostsOf(i) = {}

\* C3: an event that the filter rejects under the configuration its handler
\* read never reaches payload construction or dispatch: no media download, no
\* quoted-message lookup, no group lookup and no HTTP POST happen for it.
C3_RejectedNeverBuiltNorSent ==
  \A i \in DOMAIN events :
    LET e == events[i]
    IN  e.read.type = "object"
          /\ FilterRejects(e.read, e.message.isGroup, e.message.number)
        => e.outcome = "rejected" /\ e.pc = "done" /\ Untouched(i)

\* a group message that quotes another one was rejected
C3_Witness ==
  \E i \in DOMAIN events :
    /\ events[i].outcome = "rejected"
    /\ events[i].message.isGroup
    /\ events[i].message.hasQuotedMsg

\* C4: an event whose handler reads the configuration while it is none stops
\* there: it is not filtered, nothing is built and no HTTP POST is issued.
C4_DisabledShortCircuits ==
  \A i \in DOMAIN events :
    events[i].read = Undefined
      => /\ events[i].outcome = "skipped"
         /\ events[i].pc = "done"
         /\ ~Went(events[i], "filter")
         /\ Untouched(i)

\* a message was skipped after the webhook had been disabled
C4_Witness ==
  /\ last.op = "disable_webhook"
  /\ \E i \in DOMAIN events : events[i].outcome = "skipped"

AfterUpdate == last.op \in {"update_webhook_config", "disable_webhook"}

\* C5: after updateWebhookConfig(cfg, persist) has returned,
\* getCurrentWebhookConfig() is cfg, for either value of persist and also when
\* the write failed; no exception reaches the caller.
C5_UpdateTakesEffectInMemory ==
  AfterUpdate =>
    /\ GetCurrentWebhookConfig(Globals) = last.newConfig
    /\ ~last.threw

\* an update whose write to the backing file was refused
C5_Witness ==
  /\ last.op = "update_webhook_config"
  /\ last.write = "EIO"
  /\ currentWebhookConfig = last.newConfig
  /\ files[webhookConfigPath.value] # JSONstringify(last.newConfig)

\* C6: update_webhook_config with saveToFile = true returns an error result
\* when the write to the backing file fails, also without a configPath.
C6_WriteFailureIsReported ==
  last.op = "update_webhook_config" /\ last.saveToFile /\ last.write = "EIO"
    => last.isError

\* the configurations the tools and the files of this model offer
OfferedConfigs ==
  {NewConfig(url, authToken, Undefined) : url \in Urls, authToken \in OptToken}
    \cup {HandWritten}

\* C7: the store holds exactly one value, none or one whole configuration, and
\* getCurrentWebhookConfig() returns the value installed by the latest
\* completed update, reload, watcher reload or start-up.
C7_ReadsObserveLatestWrite ==
  /\ GetCurrentWebhookConfig(Globals) = installed
  /\ GetCurrentWebhookConfig(Globals) \in {Undefined} \cup OfferedConfigs

\* a watcher reload has replaced the configuration by the content of the file
C7_Witness ==
  /\ last.op = "watcher"
  /\ last.reloaded
  /\ currentWebhookConfig = HandWritten

\* the write to the backing file was attempted and the file system did not
\* refuse it
PersistedUpdate ==
  /\ AfterUpdate
  /\ last.saveToFile
  /\ Truthy(webhookConfigPath)
  /\ last.write # "EIO"

\* C8: after an update with persist = true, a known backing path and no write
\* failure, the configuration in memory and the content of the backing file
\* are equal, for every value passed, none included.
C8_MemoryEqualsFile ==
  PersistedUpdate =>
    LoadedValue(files[webhookConfigPath.value]) = currentWebhookConfig

\* C9: an update with persist = true whose write is performed, followed by
\* loading the backing file, yields the configuration passed; the file holds
\* the text of that configuration and nothing else.
C9_RoundTrip ==
  last.op = "update_webhook_config" /\ last.write = "written" =>
    /\ files[webhookConfigPath.value] = JSONstringify(last.newConfig)
    /\ LoadedValue(files[webhookConfigPath.value]) = last.newConfig

\* a configuration without authToken was written over a file that held
\* something else and reads back as it was passed
C9_Witness ==
  /\ last.op = "update_webhook_config"
  /\ last.write = "written"
  /\ last.newConfig.authToken = Undefined
  /\ last.newConfig.url = Str("https://b.test/hook")
  /\ "authToken" \notin DOMAIN files[webhookConfigPath.value].doc
  /\ LoadedValue(files[webhookConfigPath.value]) = last.newConfig

\* C10: after disable_webhook with persist = true, getCurrentWebhookConfig()
\* is none and the backing file represents the disabled state: it no longer
\* holds the configuration that was active.
C10_DisablePersists ==
  last.op = "disable_webhook" /\ PersistedUpdate =>
    /\ GetCurrentWebhookConfig(Globals) = Undefined
    /\ LoadedValue(files[webhookConfigPath.value]) = Undefined

\* the steps taken by somebody outside the process
External == {"external edit", "external replace"}

\* C11: no file is written except by an update with persist = true: an update
\* with persist = false, a get, an explicit reload and a watcher-triggered
\* reload leave every file as it was.
C11_OnlyPersistingUpdateWrites ==
  [][/\ last'.op \in {"update_webhook_config", "disable_webhook"} /\ ~last'.saveToFile
          => files' = files
     /\ last'.op \in {"get_current_webhook_config", "reload_webhook_config", "watcher"}
          => files' = files
     /\ files' # files /\ last'.op \notin External
          => last'.op \in {"update_webhook_config", "disable_webhook"} /\ last'.saveToFile]_vars

\* a configuration was reloaded from another file while the backing file does
\* not exist, and the backing file still does not exist
C11_Witness ==
  /\ last.op = "reload_webhook_config"
  /\ last.outcome = "reloaded"
  /\ Truthy(webhookConfigPath)
  /\ last.filePath # webhookConfigPath.value
  /\ files[webhookConfigPath.value] = Absent
  /\ currentWebhookConfig = HandWritten

\* C12: on every 'change' notification of the watched file the configuration
\* in memory becomes the parsed content of the file; when the content does not
\* parse, the configuration in memory stays exactly what it was.
C12_WatcherReloadReplacesOrKeeps ==
  [][last'.op = "watcher" /\ last'.eventType = "change" =>
       LET content == files[webhookConfigPath.value]
       IN  IF content # Absent /\ content.wellFormed
           THEN currentWebhookConfig' = ParseConfig(content.doc)
           ELSE currentWebhookConfig' = currentWebhookConfig]_vars

\* the watched file was left malformed and the notification kept the
\* configuration that was in memory
C12_Witness ==
  /\ last.op = "watcher"
  /\ last.eventType = "change"
  /\ ~last.reloaded
  /\ files[webhookConfigPath.value] = Malformed
  /\ currentWebhookConfig \in OfferedConfigs

\* the observations whose listeners a change of file p is reported to
Observing(p) == {w \in watches : w.path = p}

\* C13: at most one observation is open at any time, and it is the one
\* configWatcher refers to, on the backing file; a change of a file is reported
\* to at most one listener, and every queued notification belongs to the open
\* observation.
C13_AtMostOneObservation ==
  /\ Cardinality(watches) <= 1
  /\ \A w \in watches :
       /\ configWatcher = [type |-> "watcher", id |-> w.id]
       /\ w.path = webhookConfigPath.value
  /\ \A p \in Paths : Cardinality(Observing(p)) <= 1
  /\ \A k \in 1..Len(pending) : \E w \in watches : w.id = pending[k].id

\* the client was created again while an observation was open: the old one
\* was closed and one observation is open, on the new backing file
C13_Witness ==
  /\ last.op = "createWhatsAppClient"
  /\ last.closed
  /\ last.path = "data/webhook.json"
  /\ files[".wwebjs_auth/webhook.json"] # Absent
  /\ Cardinality(watches) = 1

\* C14: a client created while the backing file does not exist starts with
\* the webhook disabled and without an observation; and as long as the client
\* is not created again, no observation comes into being and no watcher reload
\* happens, whether the file appears by an update with persist = true or by
\* somebody outside the process.
C14_NoObservationWithoutFile ==
  [][/\ last'.op = "createWhatsAppClient" /\ files[last'.path] = Absent
          => /\ currentWebhookConfig' = Undefined
             /\ watches' = {}
             /\ pending' = <<>>
     /\ watches = {} /\ last'.op # "createWhatsAppClient"
          => /\ watches' = {}
             /\ pending' = <<>>
             /\ last'.op # "watcher"]_vars

\* the client was created without a backing file, an update with persist =
\* true created the file, and the file is not observed
C14_Witness ==
  /\ last.op = "update_webhook_config"
  /\ last.write = "written"
  /\ files[webhookConfigPath.value] = JSONstringify(last.newConfig)
  /\ files[webhookConfigPath.value] # JSONstringify(HandWritten)
  /\ \A p \in Paths \ {webhookConfigPath.value} : files[p] = Absent
  /\ watches = {}
  /\ pending = <<>>

\* C15: reload_webhook_config against a path where no file exists returns an
\* error result that says 'not found', and the configuration in memory stays
\* what it was.
C15_ReloadOfMissingFile ==
  [][last'.op = "reload_webhook_config" /\ files[last'.filePath] = Absent =>
       /\ last'.outcome = "not found"
       /\ last'.isError
       /\ currentWebhookConfig' = currentWebhookConfig]_vars

\* a reload of a missing file was refused while a webhook was configured
C15_Witness ==
  /\ last.op = "reload_webhook_config"
  /\ last.outcome = "not found"
  /\ last.isError
  /\ files[last.filePath] = Absent
  /\ currentWebhookConfig \in OfferedConfigs

\* the step is a load of the file at the path it names: the start-up load of
\* createWhatsAppClient or the load of reload_webhook_config
StartupLoad == last'.op = "createWhatsAppClient"

ExplicitLoad == last'.op = "reload_webhook_config"

\* C16: a load from a file with malformed content gives a parse error to its
\* caller, a load from a missing file gives none without an error (the reload
\* tool then reports 'not found'), and in both cases the load leaves the
\* configuration in memory as it was.
C16_FailedLoadLeavesStoreAlone ==
  [][/\ StartupLoad /\ files[last'.path] = Malformed
          => last'.threw /\ currentWebhookConfig' = currentWebhookConfig
     /\ StartupLoad /\ files[last'.path] = Absent
          => /\ ~last'.threw
             /\ last'.returned = Undefined
             /\ currentWebhookConfig' = currentWebhookConfig
     /\ ExplicitLoad /\ files[last'.filePath] = Malformed
          => last'.isError /\ currentWebhookConfig' = currentWebhookConfig
     /\ ExplicitLoad /\ files[last'.filePath] = Absent
          => currentWebhookConfig' = currentWebhookConfig]_vars

\* C17: reload_webhook_config on an existing, well-formed file succeeds and
\* makes the parsed content of that file the configuration in memory, without
\* writing any file and without raising a notification, so that
\* getCurrentWebhookConfig() then equals the content of the file.
C17_ReloadInstallsFileContent ==
  [][ExplicitLoad /\ files[last'.filePath] \notin {Absent, Malformed} =>
       /\ last'.outcome = "reloaded"
       /\ ~last'.isError
       /\ currentWebhookConfig' = ParseConfig(files[last'.filePath].doc)
       /\ currentWebhookConfig' = ParseConfig(files'[last'.filePath].doc)
       /\ files' = files
       /\ pending' = pending]_vars

\* the file written by an earlier update was reloaded over a configuration
\* that had been set in memory only
C17_Witness ==
  /\ last.op = "reload_webhook_config"
  /\ last.outcome = "reloaded"
  /\ currentWebhookConfig = ParseConfig(files[last.filePath].doc)
  /\ currentWebhookConfig.url = Str("https://b.test/hook")
  /\ currentWebhookConfig.authToken = Str("secret")

\* the lookups the payload of a message needs, in the order of the design:
\* media, quoted message, group
Lookups(message) ==
  (IF message.hasMedia THEN <<"downloadMedia">> ELSE <<>>)
    \o (IF message.hasQuotedMsg THEN <<"getQuotedMessage">> ELSE <<>>)
    \o (IF message.isGroup THEN <<"getChat">> ELSE <<>>)

\* the phases of one event from arrival to dispatch
Phases(message) == <<"getContact", "filter">> \o Lookups(message) \o <<"post">>

IsPrefix(s, t) == Len(s) <= Len(t) /\ \A k \in 1..Len(s) : s[k] = t[k]

FilterAccepted(e) ==
  /\ e.read.type = "object"
  /\ ~RuleFires(e.read.filters, e.message.isGroup, e.message.number)

\* C18: the phases of one event follow one another: the payload is started
\* only after the filter has accepted the event, the lookups run one after the
\* other, and the HTTP POST is issued only after every lookup the payload needs
\* has returned, with the payload as the lookups left it.
C18_PhasesAreSequential ==
  \A i \in DOMAIN events :
    LET e == events[i]
    IN  /\ IsPrefix(e.trace, Phases(e.message))
        /\ Len(e.trace) > 2 \/ e.payload # Undefined => FilterAccepted(e)
        /\ PostsOf(i) # {} <=> Went(e, "post")
        /\ Went(e, "post") => e.trace = Phases(e.message)
        /\ \A k \in PostsOf(i) : posts[k].payload = e.payload

\* the request for a group message that quotes another one was issued with
\* the quoted message and the group in its payload
C18_Witness ==
  \E k \in 1..Len(posts) :
    /\ events[posts[k].event].message.isGroup
    /\ events[posts[k].event].message.hasQuotedMsg
    /\ posts[k].payload.quotedMessage = "present"
    /\ posts[k].payload.group = "present"

\* a response with a status in [200, 300)
Success(response) ==
  response.kind = "response" /\ response.status \in 200..299

\* C19: an event causes at most one HTTP POST, to the url of the
\* configuration its handler read; once the answer is in, the event is done,
\* delivered exactly when the status is in [200, 300) and failed otherwise, and
\* a failed event still has exactly one request: it is never sent again.
C19_AtMostOnePostNoRetry ==
  \A i \in DOMAIN events :
    LET e == events[i]
    IN  /\ Cardinality(PostsOf(i)) <= 1
        /\ \A k \in PostsOf(i) : posts[k].url = e.read.url
        /\ e.response.kind # "none" =>
             /\ e.pc = "done"
             /\ Cardinality(PostsOf(i)) = 1
             /\ e.outcome = IF Success(e.response) THEN "delivered" ELSE "failed"
        /\ e.outcome \in {"delivered", "failed"} => e.response.kind # "none"

\* the endpoint answered 300: the event failed and was sent once
C19_Witness ==
  \E i \in DOMAIN events :
    /\ events[i].response = Response(300)
    /\ events[i].outcome = "failed"
    /\ Cardinality(PostsOf(i)) = 1

\* the run i of the handler ends in this step with a failed delivery
DeliveryFails(i) ==
  /\ events[i].pc = "post"
  /\ events'[i].pc = "done"
  /\ ~Success(events'[i].response)

\* the handler run e went all the way: a request was issued and answered
Dispatched(i) ==
  /\ events[i].outcome \in {"delivered", "failed"}
  /\ Cardinality(PostsOf(i)) = 1
  /\ events[i].trace = Phases(events[i].message)

\* C20: a delivery that fails (a status outside [200, 300) or no response)
\* ends the handler run as failed without an exception, leaves the
\* configuration in memory, the backing file and the other runs as they were,
\* and the messages that arrive afterwards are handled as ever: a next message
\* can arrive, and every run that ended after its filter accepted it was
\* dispatched.
C20_DeliveryFailureIsContained ==
  [][/\ \A i \in DOMAIN events : DeliveryFails(i) =>
          /\ events'[i].outcome = "failed"
          /\ currentWebhookConfig' = currentWebhookConfig
          /\ files' = files
          /\ UNCHANGED <<webhookConfigPath, configWatcher, watches, pending>>
          /\ posts' = posts
          /\ \A j \in DOMAIN events \ {i} : events'[j] = events[j]
          /\ Len(events') < 1 + MaxLater =>
               (ENABLED MessageArrivesAfter(events[i].message))'
     /\ \A j \in DOMAIN events' :
          events'[j].pc = "done" /\ FilterAccepted(events'[j]) => Dispatched(j)']_vars

\* a delivery failed with status 500 and the message that arrived afterwards
\* was delivered
C20_Witness ==
  \E i, j \in DOMAIN events :
    /\ i < j
    /\ events[i].response = Response(500)
    /\ events[i].outcome = "failed"
    /\ events[j].outcome = "delivered"
    /\ posts[Len(posts)].event = j

\* the Authorization header that goes with a token: none without a token and
\* none with the empty string
AuthorizationFor(authToken) ==
  IF authToken = Undefined \/ authToken = Str("") THEN Undefined
  ELSE Str("Bearer " \o authToken.value)

\* C21 (amended): every delivery request and every test delivery carries
\* Content-Type: application/json, and carries Authorization: Bearer
\* <authToken> exactly when the authToken of the configuration used (of the
\* argument, for the test) is a non-empty string; no token and the empty
\* string give no Authorization header.
C21_HeadersFollowToken ==
  /\ \A k \in 1..Len(posts) :
       /\ posts[k].contentType = "application/json"
       /\ posts[k].authorization = AuthorizationFor(events[posts[k].event].read.authToken)
  /\ last.op = "test_webhook" =>
       /\ last.request.contentType = "application/json"
       /\ last.request.authorization = AuthorizationFor(last.authToken)

\* a message was sent with a bearer token and the test delivery that followed,
\* called without a token, carried none
C21_Witness ==
  /\ \E k \in 1..Len(posts) : posts[k].authorization = Str("Bearer secret")
  /\ last.op = "test_webhook"
  /\ last.authToken = Undefined
  /\ last.request.authorization = Undefined

\* C21 as stated: the Authorization header is there if and only if an
\* authToken is present in the configuration used, or in the arguments of the
\* test.
C21_BearerIffTokenPresent ==
  /\ \A k \in 1..Len(posts) :
       /\ posts[k].contentType = "application/json"
       /\ posts[k].authorization # Undefined
            <=> events[posts[k].event].read.authToken # Undefined
  /\ last.op = "test_webhook" =>
       /\ last.request.contentType = "application/json"
       /\ last.request.authorization # Undefined <=> last.authToken # Undefined

\* the run i of the handler was not cut short: it is at a later lookup, at
\* its request, or has ended with its one request answered
StillDispatched(i) ==
  /\ events[i].pc \in {"getQuotedMessage", "getChat", "post", "done"}
  /\ events[i].pc = "done" => events[i].outcome \in {"delivered", "failed"}
  /\ IsPrefix(events[i].trace, Phases(events[i].message))
  /\ events[i].pc \in {"post", "done"} =>
       /\ Cardinality(PostsOf(i)) = 1
       /\ \A k \in PostsOf(i) : posts[k].payload = events[i].payload

\* the payload carries the envelope of the message and a content of its kind
EnvelopeAndContent(payload, message) ==
  /\ payload.from = message.number
  /\ payload.message = message.body
  /\ payload.isGroup = message.isGroup
  /\ payload.type = message.type
  /\ payload.hasQuotedMsg = message.hasQuotedMsg
  /\ payload.messageType \in HandledKinds \cup {"unknown"}
  /\ DOMAIN payload.content # {}

\* C22: a media download that fails does not abort payload construction: the
\* payload keeps its envelope and content, its media field holds the error
\* marker, and the handler goes on to dispatch the event.
C22_FailedDownloadIsMarked ==
  \A i \in DOMAIN events :
    events[i].answers.downloadMedia = "throws" =>
      /\ EnvelopeAndContent(events[i].payload, events[i].message)
      /\ events[i].payload.media = "error"
      /\ StillDispatched(i)

\* the download of the media of an image failed and the event was delivered
\* with the error marker
C22_Witness ==
  \E i \in DOMAIN events :
    /\ events[i].message.type = "image"
    /\ events[i].answers.downloadMedia = "throws"
    /\ events[i].outcome = "delivered"
    /\ \E k \in PostsOf(i) : posts[k].payload.media = "error"

\* the media field that goes with the answer of downloadMedia
MediaFor(answer) ==
  CASE answer = "media" -> "descriptor"
    [] answer = "throws" -> "error"
    [] OTHER -> "absent"

\* C23: a group lookup or a quoted-message lookup that fails does not abort
\* payload construction: the field of the failed lookup (group,
\* quotedMessage) is left out, the other fields are what they are without
\* that lookup, and the handler goes on to dispatch the event.
C23_FailedLookupOmitsField ==
  \A i \in DOMAIN events :
    LET e == events[i] IN
    /\ e.answers.getQuotedMessage = "throws" =>
          /\ e.payload.quotedMessage = "absent"
          /\ EnvelopeAndContent(e.payload, e.message)
          /\ e.payload.media = MediaFor(e.answers.downloadMedia)
          /\ e.payload.group = IF e.answers.getChat = "ok" THEN "present" ELSE "absent"
          /\ StillDispatched(i)
    /\ e.answers.getChat = "throws" =>
          /\ e.payload.group = "absent"
          /\ EnvelopeAndContent(e.payload, e.message)
          /\ e.payload.media = MediaFor(e.answers.downloadMedia)
          /\ e.payload.quotedMessage =
               IF e.answers.getQuotedMessage = "ok" THEN "present" ELSE "absent"
          /\ StillDispatched(i)

\* a group message that quotes another was delivered with its media although
\* both lookups failed
C23_Witness ==
  \E i \in DOMAIN events :
    /\ events[i].answers.getQuotedMessage = "throws"
    /\ events[i].answers.getChat = "throws"
    /\ events[i].outcome = "delivered"
    /\ \E k \in PostsOf(i) :
         /\ posts[k].payload.media = "descriptor"
         /\ posts[k].payload.group = "absent"
         /\ posts[k].payload.quotedMessage = "absent"

\* C24: the classification is total: the messageType of every payload is one
\* of the twelve values; it is the raw kind for the eleven kinds the switch
\* names, and 'unknown' with a content of exactly text and hasMedia for every
\* other kind; no kind ends the handler with an exception.
C24_ClassificationIsTotal ==
  \A i \in DOMAIN events :
    LET e == events[i] IN
    /\ e.pc = "done" /\ e.payload # Undefined => e.outcome \in {"delivered", "failed"}
    /\ e.payload # Undefined =>
         /\ e.payload.messageType \in
              {"text", "image", "video", "audio", "voice", "document", "sticker",
               "location", "contact", "reaction", "group_invite", "unknown"}
         /\ e.message.type \in
              {"text", "image", "video", "audio", "voice", "document", "sticker",
               "location", "contact", "reaction", "group_invite"}
              => e.payload.messageType = e.message.type
         /\ e.message.type \notin
              {"text", "image", "video", "audio", "voice", "document", "sticker",
               "location", "contact", "reaction", "group_invite"}
              => /\ e.payload.messageType = "unknown"
                 /\ DOMAIN e.payload.content = {"text", "hasMedia"}
                 /\ e.payload.content.text = e.message.body
                 /\ e.payload.content.hasMedia = e.message.hasMedia

\* a message of a kind the switch does not name was delivered as 'unknown'
C24_Witness ==
  \E i \in DOMAIN events :
    /\ events[i].message.type = "ptt"
    /\ events[i].outcome = "delivered"
    /\ \E k \in PostsOf(i) :
         /\ posts[k].payload.messageType = "unknown"
         /\ posts[k].payload.content = [text |-> Str("hello"), hasMedia |-> TRUE]

\* C25: the optional fields of a payload are there exactly when their source
\* is: a private text message without media and without quote gives
\* messageType 'text', content {text: body} and no media, group or
\* quotedMessage; group is there only for a group message whose chat lookup
\* succeeded, quotedMessage only for a message that quotes one whose lookup
\* succeeded.
C25_OptionalFieldsFollowSource ==
  \A k \in 1..Len(posts) :
    LET e == events[posts[k].event]
        payload == posts[k].payload
    IN  /\ (~e.message.isGroup /\ e.message.type = "text" /\ ~e.message.hasMedia
             /\ ~e.message.hasQuotedMsg) =>
              /\ payload.messageType = "text"
              /\ payload.content = [text |-> e.message.body]
              /\ payload.media = "absent"
              /\ payload.group = "absent"
              /\ payload.quotedMessage = "absent"
        /\ payload.group = "present" <=>
              (e.message.isGroup /\ e.answers.getChat = "ok")
        /\ payload.quotedMessage = "present" <=>
              (e.message.hasQuotedMsg /\ e.answers.getQuotedMessage = "ok")
        /\ payload.media # "absent" =>
              (e.message.hasMedia /\ e.answers.downloadMedia \in {"media", "throws"})

\* a private text message without media and quote was sent bare
C25_Witness ==
  \E k \in 1..Len(posts) :
    LET e == events[posts[k].event] IN
    /\ ~e.message.isGroup /\ e.message.type = "text"
    /\ ~e.message.hasMedia /\ ~e.message.hasQuotedMsg
    /\ posts[k].payload.content = [text |-> Str("hello")]
    /\ posts[k].payload.media = "absent"
    /\ posts[k].payload.group = "absent"
    /\ posts[k].payload.quotedMessage = "absent"

\* C26: a test delivery does not depend on the configuration store: the step
\* leaves the configuration in memory, the watcher, the files and the handler
\* runs as they were, its request goes to the url argument with the fixed
\* test payload and the token argument whatever the store holds (disabled
\* included), and a request that fails gives an error result, never an
\* exception.
C26_TestDeliveryIsIndependent ==
  [][(last' # last /\ last'.op = "test_webhook") =>
       /\ UNCHANGED <<storeVars, installed, events, posts>>
       /\ last'.request.url = last'.url
       /\ last'.request.authorization = AuthorizationFor(last'.authToken)
       /\ last'.request.payload.from = "1234567890"
       /\ last'.request.payload.messageType = "text"
       /\ last'.request.payload.content = [text |-> "This is a test message"]
       /\ ~last'.threw
       /\ last'.isError <=> ~Success(last'.response)
       /\ last'.response = NoResponse =>
            (last'.isError /\ last'.text = "Webhook test failed")
       /\ last'.response = Response(200) =>
            (~last'.isError /\ last'.text = "Webhook test completed")]_vars

\* while the webhook was disabled and its file still held a configuration, a
\* test delivery to another url found no server and returned an error result
C26_Witness ==
  /\ last.op = "test_webhook"
  /\ webhookConfigPath # Undefined
  /\ currentWebhookConfig = Undefined
  /\ last.url = Str("https://a.test/hook")
  /\ last.request.url = Str("https://a.test/hook")
  /\ last.response = NoResponse
  /\ last.isError
  /\ ~last.threw

\* the value a filters member takes when the caller gives `given`
OrDefault(given, default) == IF given = Undefined THEN default ELSE given

\* C27: the configuration that update_webhook_config installs has complete
\* filters: allowedNumbers is the list given or the empty list,
\* allowPrivate and allowGroups are the booleans given or true, and a false
\* that was given stays false.
C27_UpdateInstallsCompleteFilters ==
  last.op = "update_webhook_config" =>
    LET given == last.filters
        filters == currentWebhookConfig.filters
    IN  /\ currentWebhookConfig # Undefined
        /\ filters # Undefined
        /\ filters.allowedNumbers.type = "array"
        /\ filters.allowPrivate \in {Bool(TRUE), Bool(FALSE)}
        /\ filters.allowGroups \in {Bool(TRUE), Bool(FALSE)}
        /\ filters.allowedNumbers = OrDefault(OptChain(given, "allowedNumbers"), Arr(<<>>))
        /\ filters.allowPrivate = OrDefault(OptChain(given, "allowPrivate"), Bool(TRUE))
        /\ filters.allowGroups = OrDefault(OptChain(given, "allowGroups"), Bool(TRUE))

\* an update that gave only allowPrivate: false installed the empty list,
\* false and true
C27_Witness ==
  /\ last.op = "update_webhook_config"
  /\ last.filters = MkFilters(Undefined, Bool(FALSE), Undefined)
  /\ currentWebhookConfig.filters = MkFilters(Arr(<<>>), Bool(FALSE), Bool(TRUE))

\* the run i of the handler issues its request in this step
Dispatches(i) ==
  /\ i \in DOMAIN events
  /\ events[i].pc # "post"
  /\ events'[i].pc = "post"
  /\ Len(posts') = Len(posts) + 1
  /\ posts'[Len(posts')].event = i

\* C28 (amended): when an update or a watcher reload completes between the
\* filter of an event and its dispatch, the request of that event is still
\* made with the url and authToken of the configuration that was current at
\* filter time, the one the filter decision was taken with.
C28_DispatchUsesFilterTimeConfig ==
  [][\A i \in DOMAIN events :
       Dispatches(i) =>
         LET post == posts'[Len(posts')]
             read == events'[i].read
         IN  /\ Truthy(read)
             /\ Accepts(read, events[i].message.isGroup, events[i].message.number)
             /\ post.url = read.url
             /\ post.authorization = AuthorizationFor(read.authToken)]_vars

\* the configuration was replaced while the handler was suspended, and the
\* request went to the url that was configured at filter time
C28_Witness ==
  \E k \in 1..Len(posts) :
    LET e == events[posts[k].event] IN
    /\ e.read.url = Str("https://a.test/hook")
    /\ posts[k].url = Str("https://a.test/hook")
    /\ posts[k].authorization = Undefined
    /\ currentWebhookConfig # Undefined
    /\ currentWebhookConfig.url = Str("https://b.test/hook")
    /\ currentWebhookConfig.authToken = Str("secret")

\* C28 as stated: the request is made with the url and authToken of the
\* configuration that is current when the request is made.
C28_DispatchUsesConfigAtDispatch ==
  [][\A i \in DOMAIN events :
       (Dispatches(i) /\ Truthy(currentWebhookConfig)) =>
         LET post == posts'[Len(posts')]
         IN  /\ post.url = currentWebhookConfig.url
             /\ post.authorization = AuthorizationFor(currentWebhookConfig.authToken)]_vars

\* the url and Authorization header that the configurations ever offered to
\* the store give: no request is made without a configuration
InstalledPairs ==
  {[url |-> c.url, authorization |-> AuthorizationFor(c.authToken)] :
     c \in {NewConfig(Str("https://b.test/hook"),
                      IF filters = Undefined THEN Undefined ELSE Str("secret"),
                      filters) : filters \in ToolFilterArgs} \cup {HandWritten}}

\* C29: in every interleaving of messages, updates and watcher reloads, the
\* url and the authToken of a request are those of one configuration, the
\* one the store held when the handler read it between the arrival of the
\* message and its request; no request pairs a url with the token of another
\* configuration or uses a value that was never installed.
C29_DeliveryUsesOneInstalledConfig ==
  \A k \in 1..Len(posts) :
    LET e == events[posts[k].event] IN
    /\ Truthy(e.read)
    /\ e.read = e.webhookConfig
    /\ posts[k].url = e.read.url
    /\ posts[k].authorization = AuthorizationFor(e.read.authToken)
    /\ [url |-> posts[k].url, authorization |-> posts[k].authorization] \in InstalledPairs

\* a request went out with the url and token of the updated configuration
\* after the store had moved on to the configuration of the file
C29_Witness ==
  \E k \in 1..Len(posts) :
    /\ posts[k].url = Str("https://b.test/hook")
    /\ posts[k].authorization = Str("Bearer secret")
    /\ currentWebhookConfig = HandWritten

\* C30: the order of delivery across events is not constrained: a run of the
\* handler that is waiting can always go on, whatever the runs of the
\* earlier messages are doing, so that the request of a later message is
\* issued while the payload of an earlier one is still being built.
C30_RunsResumeIndependently ==
  \A j \in DOMAIN events :
    events[j].pc # "done" => ENABLED Returns(j)

\* two accepted messages arrived one after the other and their requests
\* were issued in the opposite order
C30_Witness ==
  /\ Len(events) >= 2
  /\ FilterAccepted(events[1])
  /\ FilterAccepted(events[2])
  /\ Lookups(events[1].message) # <<>>
  /\ Len(posts) = 2
  /\ posts[1].event = 2
  /\ posts[2].event = 1

\* C31: reload_webhook_config called without a path re-reads the backing
\* path, the file that a persisting update writes and that the watcher
\* observes, whatever data directory the client was created with.
C31_ReloadReadsBackingPath ==
  [][(/\ last'.op = "reload_webhook_config"
      /\ last'.configPath = Undefined
      /\ webhookConfigPath # Undefined)
       => last'.filePath = webhookConfigPath.value]_vars

\* the kinds that carry a media
MediaKinds == {"image", "video", "audio", "voice", "document", "sticker"}

\* C32: the payload sent for an accepted message of a media kind (image,
\* video, audio, voice, document, sticker) that has a media contains a media
\* field: the descriptor of the download or the error marker.
C32_MediaKindsCarryMedia ==
  \A k \in 1..Len(posts) :
    LET message == events[posts[k].event].message IN
    (message.type \in MediaKinds /\ message.hasMedia) =>
      posts[k].payload.media \in {"descriptor", "error"}

\* the outcomes an event may end with
TerminalOutcomes == {"skipped", "rejected", "delivered", "failed"}

\* C33: when every awaited operation comes back, every message that arrived
\* ends with one of the outcomes skipped (disabled), rejected (filter),
\* delivered or failed (delivery); no message stays in progress or ends
\* otherwise.
C33_EveryEventTerminates ==
  \A i \in 1..MaxEvents :
    (i \in DOMAIN events) ~>
      (i \in DOMAIN events /\ events[i].pc = "done"
         /\ events[i].outcome \in TerminalOutcomes)

\* C34: a notification caused by a write of the process itself never moves
\* the configuration in memory away from the latest update: when nobody else
\* writes the file, the configuration after a watcher notification is the one
\* before it, in particular the B of update(A, persist), update(B, memory
\* only), notification of A's write.
C34_OwnNotificationKeepsLatestUpdate ==
  [][last'.op = "watcher" => currentWebhookConfig' = currentWebhookConfig]_vars

\* C35: disabling with persist = true and a known backing path is durable:
\* a re-initialization on the same data directory or a watcher notification
\* that follows leaves the webhook disabled.
C35_DisableIsDurable ==
  [][(/\ last.op = "disable_webhook"
      /\ PersistedUpdate
      /\ \/ last'.op = "createWhatsAppClient" /\ last'.path = webhookConfigPath.value
         \/ last'.op = "watcher")
       => currentWebhookConfig' = Undefined]_vars

\* the run e of the handler has read the configuration
HasRead(e) == e.read.type # "not read"

\* C36: the filter decision and the delivery of one event use one value of
\* the configuration, read once after the sender lookup: the value a run has
\* read stays what it is, a change of the store touches neither the run nor
\* the requests, a run that was accepted is never skipped or rejected later,
\* and its request carries the url and authToken of the value it read.
C36_OneConfigPerEvent ==
  [][\A i \in DOMAIN events :
       /\ HasRead(events[i]) =>
            /\ events'[i].read = events[i].read
            /\ events'[i].webhookConfig = events[i].read
            /\ currentWebhookConfig' # currentWebhookConfig =>
                 (events'[i] = events[i] /\ posts' = posts)
            /\ FilterAccepted(events[i]) =>
                 events'[i].outcome \notin {"skipped", "rejected"}
            /\ ~FilterAccepted(events[i]) =>
                 (events'[i] = events[i] /\ posts' = posts)
       /\ Dispatches(i) =>
            /\ FilterAccepted(events'[i])
            /\ posts'[Len(posts')].url = events'[i].read.url
            /\ posts'[Len(posts')].authorization =
                 AuthorizationFor(events'[i].read.authToken)]_vars

\* the webhook was disabled after the handler had read the configuration of
\* the file, and the event was still delivered to the url it had read
C36_Witness ==
  \E i \in DOMAIN events :
    /\ events[i].read = HandWritten
    /\ currentWebhookConfig = Undefined
    /\ events[i].outcome = "delivered"
    /\ \E k \in PostsOf(i) : posts[k].url = HandWritten.url

\* C37: createWhatsAppClient replaces the configuration in memory by the
\* content of the backing file of the data directory it is given, or by none
\* when that file is missing or malformed; whatever was in memory before,
\* a configuration installed without persisting included, is gone.
C37_ReinitializationReplaces ==
  [][last'.op = "createWhatsAppClient" =>
       /\ webhookConfigPath' = Str(last'.path)
       /\ files' = files
       /\ currentWebhookConfig' =
            IF files[last'.path] \in {Absent, Malformed} THEN Undefined
            ELSE ParseConfig(files[last'.path].doc)
       /\ last'.returned = currentWebhookConfig']_vars

\* the client was created again on a data directory without a file while the
\* file of the other directory holds a configuration: none is left in memory
C37_Witness ==
  /\ last.op = "createWhatsAppClient"
  /\ last.closed
  /\ last.path = "data/webhook.json"
  /\ files["data/webhook.json"] = Absent
  /\ files[".wwebjs_auth/webhook.json"] \notin {Absent, Malformed}
  /\ currentWebhookConfig = Undefined

C39_OnlyChangeReloads ==
  [][(last'.op = "watcher" /\ last'.eventType # "change") =>
       /\ currentWebhookConfig' = currentWebhookConfig
       /\ ~last'.reloaded
       /\ files' = files]_vars

\* the backing file was replaced by one with another configuration; the
\* 'rename' notification has run and the memory still holds the old one
C39_Witness ==
  /\ last.op = "watcher"
  /\ last.eventType = "rename"
  /\ webhookConfigPath # Undefined
  /\ files[webhookConfigPath.value] \notin {Absent, Malformed}
  /\ currentWebhookConfig # Undefined
  /\ currentWebhookConfig # ParseConfig(files[webhookConfigPath.value].doc)

=============================================================================
